---- MODULE Spec2Model ----
(***************************************************************************)
(* The SSH client transport of lib/ssh: handshakeTransport (common.go),    *)
(* its read loop, its write path and the key (re-)exchange it runs inline, *)
(* with the handshake of client.go that starts it.                         *)
(*                                                                         *)
(* The keyingTransport under it (conn) and the key-exchange algorithm are  *)
(* external.  conn.readPacket returns a packet of any type or an error;    *)
(* conn.writePacket accepts a packet or fails, and fails for good once it  *)
(* has failed or the connection has been closed; kex.Client returns a      *)
(* result with an exchange hash H, or an error.                            *)
(***************************************************************************)
EXTENDS Integers, Sequences, FiniteSets, TLC

VARIABLES
    config,          \* Config: [RekeyThreshold, HelloOnly]
    sessionID,       \* t.sessionID; NoSession is nil
    sentInitMsg,     \* t.sentInitMsg # nil (t.sentInitPacket goes with it)
    writtenSinceKex, \* t.writtenSinceKex
    readSinceKex,    \* t.readSinceKex
    writeError,      \* t.writeError; "nil" or an error
    readError,       \* t.readError
    incoming,        \* t.incoming: the buffered packets
    incomingClosed,  \* close(t.incoming) has happened
    mu,              \* t.mu: "free", or "readLoop" during a key exchange
    rl,              \* the read loop goroutine: [pc, p, err, firstKex]
    tasks,           \* the goroutines calling writePacket / readPacket
    hs,              \* the goroutine of clientHandshake: [pc, ret]
    conn,            \* the keyingTransport: [closed, wbroken]
    peerLeft,        \* packets the peer may still send outside a key exchange
    kexLeft,         \* KEXINITs among them
    calls,           \* writePacket calls the callers may still start
    lastCall,        \* history: the call that returned last, and its result
    wire,            \* history: packets conn.writePacket accepted, in order
    readLog,         \* history: packets conn.readPacket returned, in order
    delivered,       \* history: packets readPacket returned, in order
    keyChanges,      \* history: the kexResults given to conn.prepareKeyChange
    kexOpen,         \* history: own KEXINIT written, its exchange not finished
    nego,            \* a findCommon call: its arguments and what it returned
    agreed,          \* a findAgreedAlgorithms call: the same
    w,               \* a window: [win, writeWaiters, closed]
    reservers,       \* the goroutines calling w.reserve
    wcalls,          \* window calls that may still start
    wlast,           \* history: the window call that returned last
    channelHandlers, \* c.channelHandlers: type -> queue, or NilMap
    chanQueues,      \* the queues made by HandleChannelOpen, by identity
    in,              \* the inbound channel-opens handleChannelOpens ranges over
    dispatcher,      \* the goroutine of handleChannelOpens
    hcoLog,          \* history: the HandleChannelOpen calls that returned, in order
    rejected,        \* history: the channel-opens rejected, with the reason
    dial,            \* the goroutine of Dial: [pc, Timeout, deadline, nc, ret]
    greq,            \* the global requests and the goroutine of handleGlobalRequests
    defaults,        \* a Config.SetDefaults call: the threshold before and after
    kx               \* a key exchange from the peer's KEXINIT to the algorithm's run

tvars == <<sessionID, sentInitMsg, writtenSinceKex, readSinceKex, writeError,
           readError, incoming, incomingClosed, mu>>
pvars == <<rl, tasks, hs, calls, lastCall>>
hvars == <<wire, readLog, delivered, keyChanges, kexOpen>>
nvars == <<nego, agreed>>
wvars == <<w, reservers, wcalls, wlast>>
cvars == <<channelHandlers, chanQueues, in, dispatcher, hcoLog, rejected>>
dvars == <<dial>>
gvars == <<greq>>
svars == <<defaults>>
kvars == <<kx>>
ovars == <<nvars, wvars, cvars, dvars, gvars, svars, kvars>>
htvars == <<config, tvars, pvars, conn, peerLeft, kexLeft, hvars>>
vars == <<htvars, ovars>>

(***************************************************************************)
(* Bounds of the model.                                                    *)
(***************************************************************************)
MaxPeerPackets == 2     \* packets the read loop reads outside a key exchange
MaxReadPackets == 3     \* the same, when the callers only read
MaxCalls == 2           \* writePacket calls over all callers
MaxH == 2               \* distinct exchange hashes
QueuePeerPackets == 18  \* peer packets in the full-queue scenario
QueueCalls == 3         \* writePacket calls in the full-queue scenario
QueueKexInits == 2      \* KEXINITs among the peer's packets in that scenario
MaxBytes == 2147483646  \* no call or read that would count past this is started
MaxAlgos == 3           \* names in a list handed to findCommon
MaxWindowCalls == 4     \* calls of reserve, add and close on the window
MaxOpens == 3           \* channel-opens the mux hands to handleChannelOpens
MaxHandleCalls == 3     \* calls of HandleChannelOpen
FullOpens == 17         \* channel-opens in the full-queue scenario of the client
FullHandleCalls == 2    \* calls of HandleChannelOpen in that scenario
MaxDialPackets == 2     \* packets the peer sends during and after a Dial
MaxRequests == 8        \* global requests the peer sends

(***************************************************************************)
(* Program constants.                                                      *)
(***************************************************************************)
incomingCap == 16                     \* make(chan []byte, 16)
defaultRekeyThreshold == 1073741824   \* 1 << 30
minRekeyThreshold == 256

msgIgnore == "msgIgnore"
msgDebug == "msgDebug"
msgKexInit == "msgKexInit"
msgNewKeys == "msgNewKeys"
msgOther == "msgChannelData"   \* any other message type
msgKex == "msgKexReply"        \* a message of the key-exchange algorithm

NoSession == 0
Tasks == {"t1", "t2"}

ErrEOF == "read: EOF"
ErrWrite == "write: broken connection"
ErrParse == "ssh: parse error in message type 20"
ErrNoCommon == "ssh: no common algorithm"
ErrKex == "ssh: key exchange failed"
ErrHostKeyParse == "ssh: host key parse error"
ErrHostKeySig == "ssh: host key signature error"
ErrHostKeyCallback == "ssh: host key rejected by callback"
ErrUnexpected == "ssh: unexpected message type (expected 21)"
ErrOnlyKexInit == "ssh: only handshakeTransport can send kexInit"
ErrOnlyNewKeys == "ssh: only handshakeTransport can send newKeys"

(***************************************************************************)
(* Packets.  A packet read from conn carries its position in the read      *)
(* order (id); a marker made by readOnePacket carries the id of the        *)
(* KEXINIT it stands for.                                                  *)
(***************************************************************************)
Packet(ty, ln, id) == [type |-> ty, len |-> ln, id |-> id]
NoPacket == Packet("none", 0, 0)

\* len(p) of the packets the model's peers and callers choose from: one byte,
\* as many as the rekey threshold, one more than the rekey threshold
PacketLens == {1, defaultRekeyThreshold, defaultRekeyThreshold + 1}


(***************************************************************************)
(* Algorithm negotiation: findCommon and findAgreedAlgorithms.             *)
(***************************************************************************)
\* an error value: nil, or the pieces fmt.Errorf puts together, in order
NilError == [isNil |-> TRUE, text |-> <<>>]
Errorf(text) == [isNil |-> FALSE, text |-> text]

\* %v of a []string: the elements separated by spaces, in brackets
FmtV(list) ==
    LET RECURSIVE join(_)
        join(i) == IF i > Len(list) THEN ""
                   ELSE IF i = 1 THEN list[i] \o join(i + 1)
                   ELSE " " \o list[i] \o join(i + 1)
    IN "[" \o join(1) \o "]"

noCommonErrorBare(what, client, server) ==
    Errorf(<<"ssh: no common algorithm for ", "; client offered: ", FmtV(client),
             ", server offered: ", FmtV(server)>>)

noCommonError(what, client, server) ==
    Errorf(<<"ssh: no common algorithm for ", what, "; client offered: ", FmtV(client),
             ", server offered: ", FmtV(server)>>)

\* the server's list scanned first: the server's preference decides
findCommonServerFirst(what, client, server) ==
    LET RECURSIVE inner(_, _), outer(_)
        inner(sv, j) == IF j > Len(client) THEN FALSE
                        ELSE IF client[j] = sv THEN TRUE
                        ELSE inner(sv, j + 1)
        outer(i) == IF i > Len(server)
                    THEN [common |-> "", err |-> noCommonError(what, client, server)]
                    ELSE IF inner(server[i], 1)
                         THEN [common |-> server[i], err |-> NilError]
                         ELSE outer(i + 1)
    IN outer(1)

\* for _, c := range client { for _, s := range server { if c == s ...
findCommon(what, client, server) ==
    LET RECURSIVE inner(_, _), outer(_)
        inner(c, j) == IF j > Len(server) THEN FALSE
                       ELSE IF c = server[j] THEN TRUE
                       ELSE inner(c, j + 1)
        outer(i) == IF i > Len(client)
                    THEN [common |-> "", err |-> noCommonError(what, client, server)]
                    ELSE IF inner(client[i], 1)
                         THEN [common |-> client[i], err |-> NilError]
                         ELSE outer(i + 1)
    IN outer(1)

\* the lookups of findAgreedAlgorithms in the order of the code: the
\* category named in the error, the field of the client's and of the
\* server's KexInitMsg, and the field of Algorithms the result goes to
Lookup(what, cf, sf, slot) == [what |-> what, client |-> cf, server |-> sf, slot |-> slot]

LookupsCrossed ==
    << Lookup("key exchange", "KexAlgos", "KexAlgos", "Kex"),
       Lookup("host key", "ServerHostKeyAlgos", "ServerHostKeyAlgos", "HostKey"),
       Lookup("client to server cipher", "CiphersClientServer", "CiphersServerClient", "W.Cipher"),
       Lookup("server to client cipher", "CiphersServerClient", "CiphersClientServer", "R.Cipher"),
       Lookup("client to server MAC", "MACsClientServer", "MACsClientServer", "W.MAC"),
       Lookup("server to client MAC", "MACsServerClient", "MACsServerClient", "R.MAC"),
       Lookup("client to server compression", "CompressionClientServer", "CompressionClientServer", "W.Compression"),
       Lookup("server to client compression", "CompressionServerClient", "CompressionServerClient", "R.Compression") >>

Lookups ==
    << Lookup("key exchange", "KexAlgos", "KexAlgos", "Kex"),
       Lookup("host key", "ServerHostKeyAlgos", "ServerHostKeyAlgos", "HostKey"),
       Lookup("client to server cipher", "CiphersClientServer", "CiphersClientServer", "W.Cipher"),
       Lookup("server to client cipher", "CiphersServerClient", "CiphersServerClient", "R.Cipher"),
       Lookup("client to server MAC", "MACsClientServer", "MACsClientServer", "W.MAC"),
       Lookup("server to client MAC", "MACsServerClient", "MACsServerClient", "R.MAC"),
       Lookup("client to server compression", "CompressionClientServer", "CompressionClientServer", "W.Compression"),
       Lookup("server to client compression", "CompressionServerClient", "CompressionServerClient", "R.Compression") >>

\* &Algorithms{}: every name empty; NilAlgorithms is the nil pointer
Algorithms(f) ==
    [isNil |-> FALSE, Kex |-> f["Kex"], HostKey |-> f["HostKey"],
     W |-> [Cipher |-> f["W.Cipher"], MAC |-> f["W.MAC"], Compression |-> f["W.Compression"]],
     R |-> [Cipher |-> f["R.Cipher"], MAC |-> f["R.MAC"], Compression |-> f["R.Compression"]]]

Slots == {"Kex", "HostKey", "W.Cipher", "W.MAC", "W.Compression",
          "R.Cipher", "R.MAC", "R.Compression"}

NilAlgorithms == [Algorithms([sl \in Slots |-> ""]) EXCEPT !.isNil = TRUE]

findAgreedAlgorithms(clientKexInit, serverKexInit) ==
    LET RECURSIVE step(_, _)
        step(i, result) ==
            IF i > Len(Lookups) THEN [algs |-> Algorithms(result), err |-> NilError]
            ELSE LET l == Lookups[i]
                     r == findCommon(l.what, clientKexInit[l.client], serverKexInit[l.server])
                 IN IF ~r.err.isNil THEN [algs |-> NilAlgorithms, err |-> r.err]
                    ELSE step(i + 1, [result EXCEPT ![l.slot] = r.common])
    IN step(1, [sl \in Slots |-> ""])

\* no call made
NoList == <<>>
NoNego == [pc |-> "none", what |-> "", client |-> NoList, server |-> NoList,
           common |-> "", err |-> NilError]
KexInitFields == {"KexAlgos", "ServerHostKeyAlgos", "CiphersClientServer",
                  "CiphersServerClient", "MACsClientServer", "MACsServerClient",
                  "CompressionClientServer", "CompressionServerClient"}
EmptyKexInit == [fd \in KexInitFields |-> NoList]
NoAgreed == [pc |-> "none", clientKexInit |-> EmptyKexInit, serverKexInit |-> EmptyKexInit,
             algs |-> NilAlgorithms, err |-> NilError]

NegotiationIdle ==
    /\ nego = NoNego
    /\ agreed = NoAgreed

(***************************************************************************)
(* window: the credit is a uint32, kept as its two 16-bit halves           *)
(* <<high, low>> so that the 32-bit sum and its wrap-around are computed   *)
(* exactly.                                                                *)
(***************************************************************************)
Half == 65536
U32(hi, lo) == <<hi, lo>>
Zero32 == U32(0, 0)
Max32 == U32(Half - 1, Half - 1)    \* 2^32 - 1

\* a + b in uint32: the carry out of the high half is lost
add32(a, b) == U32((a[1] + b[1] + ((a[2] + b[2]) \div Half)) % Half, (a[2] + b[2]) % Half)
\* a - b in uint32
sub32(a, b) ==
    LET borrow == IF a[2] < b[2] THEN 1 ELSE 0
    IN U32((a[1] - b[1] - borrow + Half) % Half, (a[2] - b[2] + Half) % Half)
lt32(a, b) == a[1] < b[1] \/ (a[1] = b[1] /\ a[2] < b[2])

Reservers == {"r1", "r2"}
EOF == "EOF"

\* a goroutine: idle, or waiting in w.Wait() inside reserve(win)
IdleReserver == [pc |-> "idle", win |-> Zero32, woken |-> FALSE]

window(credit) == [win |-> credit, writeWaiters |-> 0, closed |-> FALSE]

\* the call that returned last: its argument and result, the window when the
\* call took effect and right after, whether the call had to wait, and for
\* add and close the number of calls that were still to come
NoWindowCall == [op |-> "none", by |-> "none", arg |-> Zero32, ret |-> Zero32,
                 ok |-> TRUE, err |-> "nil", before |-> window(Zero32),
                 after |-> window(Zero32), blocked |-> FALSE, at |-> 0]

\* a window with some credit, open, nobody waiting
newWindow(credit, ncalls) ==
    /\ w = window(credit)
    /\ reservers = [r \in Reservers |-> IdleReserver]
    /\ wcalls = ncalls
    /\ wlast = NoWindowCall

WindowIdle == newWindow(Zero32, 0)

(***************************************************************************)
(* Client: the registry of channel handlers and handleChannelOpens.        *)
(***************************************************************************)
handlerCap == 16        \* make(chan NewChannel, 16)
ChannelTypes == {"forwarded-tcpip", "session", "custom-type"}
UnknownChannelType == "UnknownChannelType"
NoQueue == 0            \* the nil channel
\* the nil map: every lookup gives the nil channel
NilMap == [isNil |-> TRUE, byType |-> [ty \in ChannelTypes |-> NoQueue]]

\* NewClient: an empty registry, the dispatcher about to range over chans,
\* nOpens channel-opens still to come from the mux, nCalls calls of
\* HandleChannelOpen still to be made
NewClient(nOpens, nCalls) ==
    /\ channelHandlers = [isNil |-> FALSE, byType |-> [ty \in ChannelTypes |-> NoQueue]]
    /\ chanQueues = <<>>
    /\ in = [left |-> nOpens, calls |-> nCalls, closed |-> FALSE, next |-> 1]
    /\ dispatcher = [pc |-> "range", ch |-> 0, type |-> "", handler |-> NoQueue]
    /\ hcoLog = <<>>
    /\ rejected = <<>>

ClientIdle == NewClient(0, 0)

(***************************************************************************)
(* Dial is not running: the transport stands for a connection handed to    *)
(* newClientTransport directly.                                            *)
(***************************************************************************)
NoReturn == [conn |-> "none", chans |-> "none", reqs |-> "none", err |-> "none"]

NoDial == [pc |-> "idle", Timeout |-> 0, deadline |-> "none", nc |-> NoReturn,
           ret |-> "none"]

DialIdle == dial = NoDial

(***************************************************************************)
(* No global request arrives: the stream of requests is closed and         *)
(* handleGlobalRequests has returned.                                      *)
(***************************************************************************)
incomingRequests(n, closed, pc) ==
    [queue |-> <<>>, left |-> n, next |-> 1, closed |-> closed, pc |-> pc, r |-> 0,
     replies |-> <<>>]

GlobalRequestsIdle == greq = incomingRequests(0, TRUE, "done")

(***************************************************************************)
(* No SetDefaults call is under way.  A uint64 is four 16-bit limbs, the   *)
(* most significant first.                                                 *)
(***************************************************************************)
Zero64 == <<0, 0, 0, 0>>

DefaultsIdle == defaults = [pc |-> "idle", in |-> Zero64, out |-> Zero64]

\* a KEXINIT as it travels: the message, its random cookie and its flag
KexPayload(cookie, msg, follows) == [cookie |-> cookie, msg |-> msg, FirstKexFollows |-> follows]
NoPayload == KexPayload("", EmptyKexInit, FALSE)

\* no key exchange entered
NoKexEntry == [pc |-> "none", hostKeys |-> 0, sentFirst |-> FALSE,
               mine |-> NoPayload, sent |-> NoPayload, other |-> NoPayload,
               magics |-> [clientKexInit |-> NoPayload, serverKexInit |-> NoPayload],
               clientInit |-> EmptyKexInit, serverInit |-> EmptyKexInit,
               algs |-> NilAlgorithms, err |-> NilError, discarded |-> 0, ran |-> FALSE]
KexEntryIdle == kx = NoKexEntry

Elsewhere == NegotiationIdle /\ WindowIdle /\ ClientIdle /\ DialIdle /\ GlobalRequestsIdle /\ DefaultsIdle /\ KexEntryIdle

(***************************************************************************)
(* The initial state: newClientTransport has run, the read loop is about   *)
(* to call readOnePacket, clientHandshake is about to call                 *)
(* requestInitialKeyChange (it returns before that under HelloOnly).       *)
(***************************************************************************)
NoCall == [op |-> "none", ptype |-> "none", blocked |-> FALSE, late |-> FALSE,
           via |-> "none", ret |-> "none"]

IdleTask == [pc |-> "idle", pkt |-> NoPacket, woken |-> FALSE, entry |-> 0,
             kexd |-> "no", late |-> FALSE]

newHandshakeTransport(cfg, nPeer, nKex, nCalls) ==
    /\ config = cfg
    /\ sessionID = NoSession
    /\ sentInitMsg = FALSE
    /\ writtenSinceKex = 0
    /\ readSinceKex = 0
    /\ writeError = "nil"
    /\ readError = "nil"
    /\ incoming = <<>>
    /\ incomingClosed = FALSE
    /\ mu = "free"
    /\ rl = [pc |-> "top", p |-> NoPacket, err |-> "nil", firstKex |-> FALSE]
    /\ tasks = [tk \in Tasks |-> IdleTask]
    /\ hs = IF cfg.HelloOnly THEN [pc |-> "done", ret |-> "nil"]
                             ELSE [pc |-> "start", ret |-> "none"]
    /\ conn = [closed |-> FALSE, wbroken |-> FALSE]
    /\ peerLeft = nPeer
    /\ kexLeft = nKex
    /\ calls = nCalls
    /\ lastCall = NoCall
    /\ wire = <<>>
    /\ readLog = <<>>
    /\ delivered = <<>>
    /\ keyChanges = <<>>
    /\ kexOpen = "closed"

Configs == [RekeyThreshold : {defaultRekeyThreshold}, HelloOnly : BOOLEAN]

Init == \E cfg \in Configs :
            /\ newHandshakeTransport(cfg, MaxPeerPackets, MaxPeerPackets, MaxCalls)
            /\ Elsewhere

(***************************************************************************)
(* conn.writePacket: a write is accepted unless the connection is closed   *)
(* or has failed before; ok is the environment's choice for this write.    *)
(***************************************************************************)
canWrite(c, ok) == ok /\ ~c.closed /\ ~c.wbroken

broken(c) == [c EXCEPT !.wbroken = TRUE]

Sent(src, ty, open, entry, kexd) ==
    [src |-> src, type |-> ty, open |-> open, entry |-> entry, kexd |-> kexd]

\* a Broadcast that wakes nobody
BroadcastNone(ts) == ts

(***************************************************************************)
(* t.cond.Broadcast(): every goroutine waiting in t.cond.Wait() is woken.  *)
(***************************************************************************)
Broadcast(ts) ==
    [tk \in Tasks |-> IF ts[tk].pc = "waiting"
                      THEN [ts[tk] EXCEPT !.woken = TRUE] ELSE ts[tk]]

\* a sendKexInitLocked that writes a KEXINIT even when one is outstanding
sendKexInitLockedAgain(ok) ==
    IF canWrite(conn, ok)
    THEN [err |-> "nil", sent |-> TRUE,
          wire |-> Append(wire, Sent("sendKexInitLocked", msgKexInit, "open", 0, "no")),
          conn |-> conn, open |-> "open"]
    ELSE [err |-> ErrWrite, sent |-> FALSE, wire |-> wire, conn |-> broken(conn),
          open |-> kexOpen]

(***************************************************************************)
(* sendKexInitLocked: nothing if a KEXINIT is outstanding, else write one  *)
(* and record it; a failed write records nothing.                          *)
(***************************************************************************)
sendKexInitLocked(ok) ==
    IF sentInitMsg
    THEN [err |-> "nil", sent |-> TRUE, wire |-> wire, conn |-> conn,
          open |-> kexOpen]
    ELSE IF canWrite(conn, ok)
    THEN [err |-> "nil", sent |-> TRUE,
          wire |-> Append(wire, Sent("sendKexInitLocked", msgKexInit, "open", 0, "no")),
          conn |-> conn, open |-> "open"]
    ELSE [err |-> ErrWrite, sent |-> FALSE, wire |-> wire, conn |-> broken(conn),
          open |-> kexOpen]

\* a threshold compared one byte too high
overThresholdLate(n) == n > config.RekeyThreshold + 1

\* t.writtenSinceKex > t.config.RekeyThreshold, t.readSinceKex > ...
overThreshold(n) == n > config.RekeyThreshold

\* a wait loop that never waits
mustWaitNever(sent, werr) == FALSE

\* the condition of the wait loop of writePacket
mustWait(sent, werr) == sent /\ werr = "nil"

\* a switch without its two cases
callerMayWriteAny(ty) == TRUE

\* the switch of writePacket: what a caller may put on the connection
callerMayWrite(ty) == ty \notin {msgKexInit, msgNewKeys}

\* a session ID replaced by every exchange's hash
newSessionIDEveryKex(sid, H) == H

\* enterKeyExchangeLocked: the session ID is the first exchange's hash
newSessionID(sid, H) == IF sid = NoSession THEN H ELSE sid

\* every key exchange announced by msgNewKeys
successPacketNewKeys(firstKex, id) == Packet(msgNewKeys, 1, id)

\* every key exchange hidden as msgIgnore, the first one too
successPacketIgnore(firstKex, id) == Packet(msgIgnore, 1, id)

\* readOnePacket: the packet that stands for a completed key exchange
successPacket(firstKex, id) ==
    IF firstKex THEN Packet(msgNewKeys, 1, id) ELSE Packet(msgIgnore, 1, id)

\* only ignore packets dropped
droppedIgnoreOnly(p) == p.type = msgIgnore

\* readLoop: ignore and debug packets are dropped
dropped(p) == p.type = msgIgnore \/ p.type = msgDebug

\* readLoop: the write side dies with the read side
shutdownWriteError(werr, rerr) == IF werr = "nil" THEN rerr ELSE werr


(***************************************************************************)
(* The read loop.  readLog records what conn.readPacket returned: inKex    *)
(* marks a packet read inside enterKeyExchangeLocked, sidNil whether the   *)
(* session ID was unset when the packet arrived, kex what became of a      *)
(* KEXINIT ("pending", "ok", "skipped" under HelloOnly, "failed").         *)
(***************************************************************************)
LogEntry(ty, ln, inKex) ==
    [type |-> ty, len |-> ln, id |-> Len(readLog) + 1, inKex |-> inKex,
     sidNil |-> (sessionID = NoSession),
     kex |-> IF ty = msgKexInit /\ ~inKex THEN "pending" ELSE "none"]

markKex(log, id, status) == [log EXCEPT ![id].kex = status]

RLFrame == UNCHANGED <<ovars, config, readError, incoming, incomingClosed, hs, calls,
                       lastCall, delivered>>

\* counters that survive the key exchange
resetCounterKeep(n) == n

\* readOnePacket, lines 604 and 610: t.writtenSinceKex = 0, t.readSinceKex = 0
resetCounter(n) == 0

(***************************************************************************)
(* readOnePacket, lines 588-609: the end of the handling of a KEXINIT, up   *)
(* to the release of t.mu and the return of an error.  err is the result   *)
(* of enterKeyExchangeLocked (ran) or nil when HelloOnly skipped it; w1,   *)
(* c1, log1, rs1 are the wire, connection, read log and read counter as    *)
(* the exchange left them.                                                 *)
(***************************************************************************)
KexExit(err, ran, kp, fk, w1, c1, log1, rs1) ==
    /\ wire' = w1
    /\ conn' = IF err # "nil" THEN [c1 EXCEPT !.closed = TRUE] ELSE c1
    /\ writeError' = IF err # "nil" THEN err ELSE writeError
    /\ sentInitMsg' = FALSE
    /\ kexOpen' = IF ran \/ kexOpen = "closed" THEN "closed" ELSE "skipped"
    /\ tasks' = Broadcast([tk \in Tasks |->
                    IF tasks[tk].pc = "waiting" /\ err = "nil"
                    THEN [tasks[tk] EXCEPT !.kexd = IF ran THEN "ok" ELSE "skipped"]
                    ELSE tasks[tk]])
    /\ writtenSinceKex' = resetCounter(writtenSinceKex)
    /\ mu' = "free"
    /\ readSinceKex' = rs1
    /\ readLog' = markKex(log1, kp.id, IF err # "nil" THEN "failed"
                                       ELSE IF ran THEN "ok" ELSE "skipped")
    /\ rl' = IF err = "nil"
             THEN [pc |-> "kexDone", p |-> successPacket(fk, kp.id), err |-> "nil",
                   firstKex |-> fk]
             ELSE [pc |-> "failed", p |-> NoPacket, err |-> err, firstKex |-> fk]
    /\ RLFrame

\* enterKeyExchangeLocked blocks in a read of the connection, t.mu held
KexHold(pc, kp, fk, w1, c1, log1, rs1) ==
    /\ wire' = w1
    /\ conn' = c1
    /\ readLog' = log1
    /\ readSinceKex' = rs1
    /\ sentInitMsg' = TRUE
    /\ kexOpen' = "open"
    /\ mu' = "readLoop"
    /\ rl' = [pc |-> pc, p |-> kp, err |-> "nil", firstKex |-> fk]
    /\ UNCHANGED <<writeError, tasks, writtenSinceKex>>
    /\ RLFrame

\* kex.Client writes its first message and waits for the reply
KexClientStart(kp, fk, w1, c1, log1, rs1, ok) ==
    IF canWrite(c1, ok)
    THEN KexHold("kexRun", kp, fk, Append(w1, Sent("kex.Client", msgKex, "open", 0, "no")),
                 c1, log1, rs1)
    ELSE KexExit(ErrWrite, TRUE, kp, fk, w1, broken(c1), log1, rs1)

\* readOnePacket, lines 562-566: the read threshold
RL_CheckThreshold(ok) ==
    /\ rl.pc = "top"
    /\ mu = "free"
    /\ IF overThreshold(readSinceKex)
       THEN LET r == sendKexInitLocked(ok) IN
            /\ wire' = r.wire
            /\ conn' = r.conn
            /\ kexOpen' = r.open
            /\ sentInitMsg' = r.sent
            /\ rl' = IF r.err = "nil" THEN [rl EXCEPT !.pc = "read"]
                     ELSE [rl EXCEPT !.pc = "failed", !.err = r.err]
       ELSE /\ rl' = [rl EXCEPT !.pc = "read"]
            /\ UNCHANGED <<wire, conn, kexOpen, sentInitMsg>>
    /\ UNCHANGED <<sessionID, writtenSinceKex, readSinceKex, writeError, tasks,
                   readLog, keyChanges, peerLeft, kexLeft, mu>>
    /\ RLFrame

\* readOnePacket, lines 568-571: the read fails
RL_ReadError ==
    /\ rl.pc = "read"
    /\ rl' = [rl EXCEPT !.pc = "failed", !.err = ErrEOF]
    /\ UNCHANGED <<ovars, tvars, tasks, hs, calls, lastCall, config, conn, peerLeft, kexLeft,
                   hvars>>

\* readOnePacket, lines 568-584: a packet other than KEXINIT
RL_ReadPacket(ty, ln) ==
    /\ rl.pc = "read"
    /\ peerLeft > 0
    /\ ~conn.closed
    /\ ty # msgKexInit
    /\ readSinceKex <= MaxBytes - ln
    /\ peerLeft' = peerLeft - 1
    /\ readSinceKex' = readSinceKex + ln
    /\ readLog' = Append(readLog, LogEntry(ty, ln, FALSE))
    /\ rl' = [rl EXCEPT !.pc = "got", !.p = Packet(ty, ln, Len(readLog) + 1)]
    /\ UNCHANGED <<sessionID, sentInitMsg, writtenSinceKex, writeError, mu, tasks,
                   conn, wire, keyChanges, kexOpen, kexLeft>>
    /\ RLFrame

(***************************************************************************)
(* readOnePacket, lines 568-605, and enterKeyExchangeLocked up to its      *)
(* first read of the connection: a KEXINIT arrives.  kin is what the peer  *)
(* put in it: well-formed with common algorithms ("ok"), not parseable,    *)
(* no common algorithm, or FirstKexFollows with a wrong guess.             *)
(***************************************************************************)
KexInitKinds == {"ok", "malformed", "noCommon", "wrongGuess"}

RL_ReadKexInit(ln, kin, ok) ==
    /\ rl.pc = "read"
    /\ peerLeft > 0
    /\ ~conn.closed
    /\ mu = "free"
    /\ kexLeft > 0
    /\ peerLeft' = peerLeft - 1
    /\ kexLeft' = kexLeft - 1
    /\ UNCHANGED <<sessionID, keyChanges>>
    /\ LET kp == Packet(msgKexInit, ln, Len(readLog) + 1)
           log1 == Append(readLog, LogEntry(msgKexInit, ln, FALSE))
           rs1 == readSinceKex + ln
           fk == (sessionID = NoSession)
           r == sendKexInitLocked(ok)
       IN IF config.HelloOnly
          THEN KexExit("nil", FALSE, kp, fk, wire, conn, log1, rs1)
          ELSE IF r.err # "nil"
          THEN KexExit(r.err, TRUE, kp, fk, r.wire, r.conn, log1, rs1)
          ELSE IF kin = "malformed"
          THEN KexExit(ErrParse, TRUE, kp, fk, r.wire, r.conn, log1, rs1)
          ELSE IF kin = "noCommon"
          THEN KexExit(ErrNoCommon, TRUE, kp, fk, r.wire, r.conn, log1, rs1)
          ELSE IF kin = "wrongGuess"
          THEN KexHold("kexDiscard", kp, fk, r.wire, r.conn, log1, rs1)
          ELSE KexClientStart(kp, fk, r.wire, r.conn, log1, rs1, ok)

\* enterKeyExchangeLocked, lines 804-810: the wrongly guessed packet is dropped
RL_KexDiscard(rdok, ok) ==
    /\ rl.pc = "kexDiscard"
    /\ UNCHANGED <<sessionID, keyChanges, peerLeft, kexLeft>>
    /\ IF ~rdok \/ conn.closed
       THEN KexExit(ErrEOF, TRUE, rl.p, rl.firstKex, wire, conn, readLog, readSinceKex)
       ELSE KexClientStart(rl.p, rl.firstKex, wire, conn,
                           Append(readLog, LogEntry(msgKex, 1, TRUE)),
                           readSinceKex, ok)

(***************************************************************************)
(* enterKeyExchangeLocked, lines 823-846: kex.Client returns (client(),    *)
(* lines 868-891, checks the host key), the session ID is set, the keys    *)
(* are prepared and NEWKEYS is written.                                    *)
(***************************************************************************)
KexOutcomes == {"result", ErrKex, ErrHostKeyParse, ErrHostKeySig, ErrHostKeyCallback}

\* a client() that trusts every host key
hostKeyErrorNone(out) == "nil"

\* client(), lines 874-888: the error of ParsePublicKey, of
\* verifyHostKeySignature or of the host-key callback, nil when all accept
hostKeyError(out) ==
    IF out \in {ErrHostKeyParse, ErrHostKeySig, ErrHostKeyCallback} THEN out ELSE "nil"

RL_KexRun(out, H, ok) ==
    /\ rl.pc = "kexRun"
    /\ out # ErrKex => ~conn.closed
    /\ UNCHANGED <<peerLeft, kexLeft>>
    /\ LET log1 == Append(readLog, LogEntry(msgKex, 1, TRUE))
           sid1 == newSessionID(sessionID, H)
       IN IF out = ErrKex
          THEN /\ KexExit(ErrKex, TRUE, rl.p, rl.firstKex, wire, conn, readLog,
                          readSinceKex)
               /\ UNCHANGED <<sessionID, keyChanges>>
          ELSE IF hostKeyError(out) # "nil"
          THEN /\ KexExit(hostKeyError(out), TRUE, rl.p, rl.firstKex, wire, conn, log1,
                          readSinceKex)
               /\ UNCHANGED <<sessionID, keyChanges>>
          ELSE /\ sessionID' = sid1
               /\ keyChanges' = Append(keyChanges, [H |-> H, SessionID |-> sid1,
                                                    HostKey |-> out])
               /\ IF canWrite(conn, ok)
                  THEN KexHold("kexNewKeys", rl.p, rl.firstKex,
                               Append(wire, Sent("enterKeyExchangeLocked", msgNewKeys,
                                                 "open", 0, "no")),
                               conn, log1, readSinceKex)
                  ELSE KexExit(ErrWrite, TRUE, rl.p, rl.firstKex, wire, broken(conn),
                               log1, readSinceKex)

\* an exchange that takes any packet for the peer's NEWKEYS
isNewKeysAny(ty) == TRUE

\* enterKeyExchangeLocked, line 849: packet[0] != msgNewKeys
isNewKeys(ty) == ty = msgNewKeys

\* enterKeyExchangeLocked, lines 847-853, then readOnePacket, lines 590-622
RL_KexNewKeys(ty) ==
    /\ rl.pc = "kexNewKeys"
    /\ UNCHANGED <<sessionID, keyChanges, peerLeft, kexLeft>>
    /\ IF ty = "error" \/ conn.closed
       THEN KexExit(ErrEOF, TRUE, rl.p, rl.firstKex, wire, conn, readLog, readSinceKex)
       ELSE LET log1 == Append(readLog, LogEntry(ty, 1, TRUE)) IN
            IF isNewKeys(ty)
            THEN KexExit("nil", TRUE, rl.p, rl.firstKex, wire, conn, log1, readSinceKex)
            ELSE KexExit(ErrUnexpected, TRUE, rl.p, rl.firstKex, wire, conn, log1,
                         readSinceKex)

\* readOnePacket, lines 610-622: t.mu is released; the read counter is
\* reset and the marker packet returned
RL_KexDone ==
    /\ rl.pc = "kexDone"
    /\ readSinceKex' = resetCounter(readSinceKex)
    /\ rl' = [rl EXCEPT !.pc = "got"]
    /\ UNCHANGED <<sessionID, sentInitMsg, writtenSinceKex, writeError, mu, tasks, conn,
                   wire, readLog, keyChanges, kexOpen, peerLeft, kexLeft>>
    /\ RLFrame

\* readLoop, lines 546-549: drop or queue the packet readOnePacket returned
RL_Deliver ==
    /\ rl.pc = "got"
    /\ IF dropped(rl.p)
       THEN UNCHANGED incoming
       ELSE /\ Len(incoming) < incomingCap
            /\ incoming' = Append(incoming, rl.p)
    /\ rl' = [rl EXCEPT !.pc = "top", !.p = NoPacket]
    /\ UNCHANGED <<ovars, config, sessionID, sentInitMsg, writtenSinceKex, readSinceKex,
                   writeError, readError, incomingClosed, mu, tasks, hs, calls,
                   lastCall, conn, peerLeft, kexLeft, hvars>>

\* readLoop, lines 541-545: readOnePacket failed
RL_Close ==
    /\ rl.pc = "failed"
    /\ readError' = rl.err
    /\ incomingClosed' = TRUE
    /\ rl' = [rl EXCEPT !.pc = "closing"]
    /\ UNCHANGED <<ovars, config, sessionID, sentInitMsg, writtenSinceKex, readSinceKex,
                   writeError, incoming, mu, tasks, hs, calls, lastCall, conn,
                   peerLeft, kexLeft, hvars>>

\* readLoop, lines 552-558: the write side is declared dead
RL_Shutdown ==
    /\ rl.pc = "closing"
    /\ mu = "free"
    /\ writeError' = shutdownWriteError(writeError, readError)
    /\ tasks' = Broadcast(tasks)
    /\ rl' = [rl EXCEPT !.pc = "done"]
    /\ UNCHANGED <<ovars, config, sessionID, sentInitMsg, writtenSinceKex, readSinceKex,
                   readError, incoming, incomingClosed, mu, hs, calls, lastCall,
                   conn, peerLeft, kexLeft, hvars>>


(***************************************************************************)
(* The callers.  clientHandshake (client.go) calls requestInitialKeyChange *)
(* and only then lets anything else use the transport; under HelloOnly it  *)
(* returns at once.  When it fails NewClientConn closes the connection.    *)
(***************************************************************************)
TasksMayRun == hs.pc = "done" /\ hs.ret = "nil"

CallerFrame == UNCHANGED <<ovars, config, sessionID, readSinceKex, readError, mu, rl,
                           peerLeft, kexLeft, readLog, keyChanges>>

\* via: the statement that returned ("writeError": line 727, "switch": lines
\* 733 and 735, "conn": line 737; "queue": readPacket)
Returned(op, ptype, blocked, late, via, ret) ==
    [op |-> op, ptype |-> ptype, blocked |-> blocked, late |-> late, via |-> via,
     ret |-> ret]

(***************************************************************************)
(* writePacket, lines 726-738, for the call of task tk with packet p:      *)
(* entry is writtenSinceKex when the call began, kexd whether a key        *)
(* exchange completed since, w1, c1, o1 the wire, connection and kexOpen   *)
(* as the call's first part left them.                                     *)
(***************************************************************************)
WriteTail(tk, p, entry, kexd, blocked, late, w1, c1, o1, ok) ==
    LET ret(via, e) == Returned("writePacket", p.type, blocked, late, via, e)
    IN /\ tasks' = [tasks EXCEPT ![tk] = IdleTask]
       /\ IF writeError # "nil"
          THEN /\ lastCall' = ret("writeError", writeError)
               /\ wire' = w1
               /\ conn' = c1
               /\ UNCHANGED writtenSinceKex
          ELSE /\ writtenSinceKex' = writtenSinceKex + p.len
               /\ IF ~callerMayWrite(p.type)
                  THEN /\ lastCall' = ret("switch", IF p.type = msgKexInit
                                                           THEN ErrOnlyKexInit
                                                           ELSE ErrOnlyNewKeys)
                       /\ wire' = w1
                       /\ conn' = c1
                  ELSE IF canWrite(c1, ok)
                  THEN /\ lastCall' = ret("conn", "nil")
                       /\ wire' = Append(w1, Sent("writePacket", p.type, o1, entry, kexd))
                       /\ conn' = c1
                  ELSE /\ lastCall' = ret("conn", ErrWrite)
                       /\ wire' = w1
                       /\ conn' = broken(c1)

\* len(p) summed over the calls waiting in writePacket
waitingBytes ==
    LET RECURSIVE sum(_)
        sum(S) == IF S = {} THEN 0
                  ELSE LET tk == CHOOSE x \in S : TRUE
                       IN tasks[tk].pkt.len + sum(S \ {tk})
    IN sum({tk \in Tasks : tasks[tk].pc = "waiting"})

\* writePacket, lines 716-739, up to its return or its first t.cond.Wait()
WritePacket(tk, p, ok) ==
    /\ TasksMayRun
    /\ tasks[tk].pc = "idle"
    /\ mu = "free"
    /\ calls > 0
    /\ writtenSinceKex <= MaxBytes - p.len - waitingBytes
    /\ calls' = calls - 1
    /\ LET r == IF overThreshold(writtenSinceKex)
                THEN sendKexInitLocked(ok)
                ELSE [err |-> "nil", sent |-> sentInitMsg, wire |-> wire,
                      conn |-> conn, open |-> kexOpen]
       IN /\ sentInitMsg' = r.sent
          /\ kexOpen' = r.open
          /\ IF mustWait(r.sent, writeError)
             THEN /\ tasks' = [tasks EXCEPT ![tk] =
                         [pc |-> "waiting", pkt |-> p, woken |-> FALSE,
                          entry |-> writtenSinceKex, kexd |-> "no",
                          late |-> (rl.pc = "done")]]
                  /\ wire' = r.wire
                  /\ conn' = r.conn
                  /\ UNCHANGED <<writtenSinceKex, lastCall>>
             ELSE WriteTail(tk, p, writtenSinceKex, "no", FALSE, rl.pc = "done",
                            r.wire, r.conn, r.open, ok)
    /\ UNCHANGED <<writeError, incoming, incomingClosed, hs, delivered>>
    /\ CallerFrame

\* writePacket, lines 723-739: t.cond.Wait() returns after a Broadcast
WriteResume(tk, ok) ==
    /\ tasks[tk].pc = "waiting"
    /\ tasks[tk].woken
    /\ mu = "free"
    /\ IF mustWait(sentInitMsg, writeError)
       THEN /\ tasks' = [tasks EXCEPT ![tk].woken = FALSE]
            /\ UNCHANGED <<wire, conn, writtenSinceKex, lastCall>>
       ELSE WriteTail(tk, tasks[tk].pkt, tasks[tk].entry, tasks[tk].kexd, TRUE,
                      tasks[tk].late, wire, conn, kexOpen, ok)
    /\ UNCHANGED <<sentInitMsg, kexOpen, calls, writeError, incoming, incomingClosed,
                   hs, delivered>>
    /\ CallerFrame

\* readPacket, lines 530-536; a receive from the empty open queue blocks
ReadPacket(tk) ==
    /\ TasksMayRun
    /\ tasks[tk].pc = "idle"
    /\ IF incoming # <<>>
       THEN /\ incoming' = Tail(incoming)
            /\ delivered' = Append(delivered, Head(incoming))
            /\ lastCall' = Returned("readPacket", Head(incoming).type, FALSE,
                                     rl.pc = "done", "queue", "nil")
       ELSE /\ incomingClosed
            /\ lastCall' = Returned("readPacket", "none", FALSE, rl.pc = "done",
                                     "queue", readError)
            /\ UNCHANGED <<incoming, delivered>>
    /\ UNCHANGED <<tasks, sentInitMsg, writtenSinceKex, writeError, incomingClosed, hs,
                   calls, conn, wire, kexOpen>>
    /\ CallerFrame

\* sendKexInit(firstKeyExchange), lines 642-652
HS_SendKexInit(ok) ==
    /\ hs.pc = "start"
    /\ mu = "free"
    /\ LET r == IF sessionID = NoSession
                THEN sendKexInitLocked(ok)
                ELSE [err |-> "nil", sent |-> sentInitMsg, wire |-> wire,
                      conn |-> conn, open |-> kexOpen]
       IN /\ sentInitMsg' = r.sent
          /\ kexOpen' = r.open
          /\ wire' = r.wire
          /\ conn' = IF r.err = "nil" THEN r.conn ELSE [r.conn EXCEPT !.closed = TRUE]
          /\ hs' = IF r.err = "nil" THEN [pc |-> "read", ret |-> "none"]
                   ELSE [pc |-> "done", ret |-> r.err]
    /\ UNCHANGED <<writtenSinceKex, writeError, incoming, incomingClosed, tasks,
                   calls, lastCall, delivered>>
    /\ CallerFrame

\* sendKexInit(firstKeyExchange), lines 653-660: wait for the newkeys marker
HS_ReadPacket ==
    /\ hs.pc = "read"
    /\ IF incoming # <<>>
       THEN /\ incoming' = Tail(incoming)
            /\ delivered' = Append(delivered, Head(incoming))
            /\ hs' = [pc |-> "done",
                      ret |-> IF Head(incoming).type = msgNewKeys THEN "nil"
                              ELSE ErrUnexpected]
       ELSE /\ incomingClosed
            /\ hs' = [pc |-> "done", ret |-> readError]
            /\ UNCHANGED <<incoming, delivered>>
    /\ conn' = IF hs'.ret = "nil" THEN conn ELSE [conn EXCEPT !.closed = TRUE]
    /\ UNCHANGED <<sentInitMsg, writtenSinceKex, writeError, incomingClosed, tasks,
                   calls, lastCall, wire, kexOpen>>
    /\ CallerFrame

(***************************************************************************)
(* The transport with its callers and an arbitrary peer.                   *)
(***************************************************************************)
PeerPackets == {Packet(msgIgnore, 1, 0), Packet(msgDebug, 1, 0),
                Packet(msgNewKeys, 1, 0), Packet(msgOther, 1, 0),
                Packet(msgOther, defaultRekeyThreshold + 1, 0)}
CallerPackets == {Packet(msgOther, ln, 0) : ln \in PacketLens}
                 \cup {Packet(msgKexInit, 1, 0), Packet(msgNewKeys, 1, 0)}
Hashes == 1..MaxH

\* the read loop with a peer that sends packets of PP and KEXINITs of kinds
\* KK, the key exchanges giving hashes of HH
ReadLoopNoGuess(PP, KK, HH) ==
    \/ \E ok \in BOOLEAN : RL_CheckThreshold(ok)
    \/ RL_ReadError
    \/ \E p \in PP : RL_ReadPacket(p.type, p.len)
    \/ \E kin \in KK, ok \in BOOLEAN : RL_ReadKexInit(1, kin, ok)
    \/ \E out \in KexOutcomes, H \in HH, ok \in BOOLEAN : RL_KexRun(out, H, ok)
    \/ \E ty \in {"error", msgNewKeys, msgOther} : RL_KexNewKeys(ty)
    \/ RL_KexDone
    \/ RL_Deliver
    \/ RL_Close
    \/ RL_Shutdown

ReadLoop(PP) ==
    \/ ReadLoopNoGuess(PP, KexInitKinds, Hashes)
    \/ \E rdok \in BOOLEAN, ok \in BOOLEAN : RL_KexDiscard(rdok, ok)

Handshake ==
    \/ \E ok \in BOOLEAN : HS_SendKexInit(ok)
    \/ HS_ReadPacket

Next ==
    \/ ReadLoop(PeerPackets)
    \/ Handshake
    \/ \E tk \in Tasks, p \in CallerPackets, ok \in BOOLEAN : WritePacket(tk, p, ok)
    \/ \E tk \in Tasks, ok \in BOOLEAN : WriteResume(tk, ok)
    \/ \E tk \in Tasks : ReadPacket(tk)

Spec == Init /\ [][Next]_vars

(***************************************************************************)
(* The read side: the callers only read.                                   *)
(***************************************************************************)
InitRead == \E cfg \in Configs :
                /\ newHandshakeTransport(cfg, MaxReadPackets, MaxReadPackets, 0)
                /\ Elsewhere

NextRead ==
    \/ ReadLoop(PeerPackets)
    \/ Handshake
    \/ \E tk \in Tasks : ReadPacket(tk)

SpecRead == InitRead /\ [][NextRead]_vars

(***************************************************************************)
(* The write side: the peer sends ordinary packets and KEXINITs.           *)
(***************************************************************************)
InitWrite == \E cfg \in Configs :
                 /\ newHandshakeTransport(cfg, MaxPeerPackets, MaxPeerPackets, MaxCalls)
                 /\ Elsewhere

NextWrite ==
    \/ ReadLoopNoGuess({Packet(msgOther, 1, 0)}, {"ok", "noCommon"}, {1})
    \/ Handshake
    \/ \E tk \in Tasks, p \in CallerPackets, ok \in BOOLEAN : WritePacket(tk, p, ok)
    \/ \E tk \in Tasks, ok \in BOOLEAN : WriteResume(tk, ok)
    \/ \E tk \in Tasks : ReadPacket(tk)

SpecWrite == InitWrite /\ [][NextWrite]_vars

(***************************************************************************)
(* The write side under fair scheduling: the read loop goroutine and every *)
(* woken writer get to run, and a read of the connection returns, with a   *)
(* packet or, at the latest when the peer has nothing more to send, with   *)
(* an error.                                                               *)
(***************************************************************************)
LivePeerPackets == {Packet(msgOther, defaultRekeyThreshold + 1, 0)}
LiveCallerPackets == {Packet(msgOther, 1, 0), Packet(msgOther, defaultRekeyThreshold + 1, 0)}

ReadLoopLive == ReadLoopNoGuess(LivePeerPackets, {"ok"}, {1})

Resume(tk) == \E ok \in BOOLEAN : WriteResume(tk, ok)

NextLive ==
    \/ ReadLoopLive
    \/ Handshake
    \/ \E tk \in Tasks, p \in LiveCallerPackets, ok \in BOOLEAN : WritePacket(tk, p, ok)
    \/ \E tk \in Tasks : Resume(tk)
    \/ \E tk \in Tasks : ReadPacket(tk)

SpecLive ==
    /\ InitWrite
    /\ [][NextLive]_vars
    /\ WF_vars(ReadLoopLive)
    /\ \A tk \in Tasks : WF_vars(Resume(tk))

(***************************************************************************)
(* The inbound queue under load: the peer sends ordinary packets and, at   *)
(* any point among them, its KEXINITs; the tasks take packets with         *)
(* readPacket and call writePacket.                                        *)
(***************************************************************************)
QueuePeerKinds == {Packet(msgOther, 1, 0)}
QueueCallerPackets == {Packet(msgOther, minRekeyThreshold + 1, 0)}

\* a full handshake, and the smallest rekey threshold SetDefaults lets through
QueueConfigs == [RekeyThreshold : {minRekeyThreshold}, HelloOnly : {FALSE}]

InitQueue == \E cfg \in QueueConfigs :
                 /\ newHandshakeTransport(cfg, QueuePeerPackets, QueueKexInits, QueueCalls)
                 /\ Elsewhere

NextQueue ==
    \/ ReadLoopNoGuess(QueuePeerKinds, {"ok"}, {1})
    \/ Handshake
    \/ \E tk \in Tasks, p \in QueueCallerPackets : WritePacket(tk, p, TRUE)
    \/ \E tk \in Tasks : WriteResume(tk, TRUE)
    \/ \E tk \in Tasks : ReadPacket(tk)

SpecQueue == InitQueue /\ [][NextQueue]_vars

(***************************************************************************)
(* Properties of the read side.                                            *)
(***************************************************************************)
\* what the callers got or can get: the packets readPacket returned, the
\* inbound queue, and the packet the read loop is about to queue
Inbound ==
    delivered \o incoming \o
    (IF rl.pc \in {"kexDone", "got"} /\ rl.p.type \notin {msgIgnore, msgDebug}
     THEN <<rl.p>> ELSE <<>>)

\* the read log filtered: no ignore, debug or KEXINIT packet, no packet read
\* inside a key exchange, a newkeys marker for the KEXINITs of Marked
Filtered(log, Marked(_)) ==
    LET RECURSIVE f(_)
        f(n) == IF n = 0 THEN <<>>
                ELSE LET e == log[n] IN
                     IF e.inKex \/ e.type \in {msgIgnore, msgDebug} THEN f(n - 1)
                     ELSE IF e.type = msgKexInit
                     THEN IF Marked(e) THEN Append(f(n - 1), Packet(msgNewKeys, 1, e.id))
                                       ELSE f(n - 1)
                     ELSE Append(f(n - 1), Packet(e.type, e.len, e.id))
    IN f(Len(log))

\* the KEXINIT of the first key exchange, completed
FirstExchange(e) == e.kex = "ok" /\ e.sidNil

\* a KEXINIT that arrived with the session ID unset and was handled without
\* error: by a key exchange, or by none under HelloOnly
HandledUnset(e) == e.kex \in {"ok", "skipped"} /\ e.sidNil

\* C1: the session ID is unset until a key exchange has produced a result,
\* is then the hash H of the first result, and every kexResult carries it as
\* its SessionID, whatever exchanges follow.
C1_SessionIDSetOnce ==
    /\ keyChanges = <<>> => sessionID = NoSession
    /\ keyChanges # <<>> =>
          /\ sessionID = keyChanges[1].H
          /\ \A i \in DOMAIN keyChanges : keyChanges[i].SessionID = keyChanges[1].H

\* C1 witness: a second exchange with another hash has produced its result,
\* and an exchange has failed.
C1_Witness ==
    /\ Len(keyChanges) >= 2
    /\ keyChanges[2].H # keyChanges[1].H
    /\ \E i \in DOMAIN readLog : readLog[i].kex = "failed"

C6_KexInitReplacedByMarker ==
    /\ \A i \in DOMAIN Inbound : Inbound[i].type # msgKexInit
    /\ (rl.pc = "got" /\ readLog[rl.p.id].type = msgKexInit) =>
          /\ readLog[rl.p.id].kex \in {"ok", "skipped"}
          /\ rl.p.len = 1
          /\ rl.p.type = IF readLog[rl.p.id].sidNil THEN msgNewKeys ELSE msgIgnore

\* C6 witness: readOnePacket returns the ignore marker of a later exchange,
\* the newkeys marker of the first having been delivered.
C6_Witness ==
    /\ rl.pc = "got"
    /\ readLog[rl.p.id].type = msgKexInit
    /\ readLog[rl.p.id].kex = "ok"
    /\ rl.p.type = msgIgnore
    /\ \E i \in DOMAIN delivered :
          delivered[i].type = msgNewKeys /\ readLog[delivered[i].id].kex = "ok"

\* the NEWKEYS packets queued so far that readOnePacket made for a KEXINIT
NewKeysMarkers ==
    LET q == delivered \o incoming
    IN {i \in DOMAIN q : q[i].type = msgNewKeys /\ readLog[q[i].id].type = msgKexInit}

RekeySources == {"sendKexInitLocked", "kex.Client", "enterKeyExchangeLocked"}

C9_CallerKexPacketsRejected ==
    /\ \A i \in DOMAIN wire :
          wire[i].type \in {msgKexInit, msgNewKeys} =>
              wire[i].src \in {"sendKexInitLocked", "enterKeyExchangeLocked"}
    /\ (lastCall.op = "writePacket" /\ lastCall.ptype \in {msgKexInit, msgNewKeys})
          => lastCall.ret # "nil"

\* C9 witness: a call with a KEXINIT got past the wait loop and was refused
\* by the switch, after a call with an ordinary packet had written it.
C9_Witness ==
    /\ lastCall.op = "writePacket"
    /\ lastCall.ptype = msgKexInit
    /\ lastCall.ret = ErrOnlyKexInit
    /\ \E i \in DOMAIN wire : wire[i].src = "writePacket"

\* a caller's packet on the wire whose call found more than n bytes counted
\* has waited for the peer's KEXINIT to be handled (by a key exchange, unless
\* HelloOnly), and this side's KEXINIT is on the wire before it
RekeyedFirst(i) ==
    /\ wire[i].kexd = IF config.HelloOnly THEN "skipped" ELSE "ok"
    /\ \E j \in 1..(i - 1) :
          wire[j].type = msgKexInit /\ wire[j].src = "sendKexInitLocked"

\* readOnePacket has just finished handling a KEXINIT without error
KexInitHandled ==
    /\ rl.pc # "kexDone"
    /\ rl'.pc = "kexDone"
    /\ readLog'[rl'.p.id].type = msgKexInit

ReadSideDown ==
    /\ rl.pc = "done" =>
          /\ readError # "nil"
          /\ incomingClosed
          /\ writeError = readError
          /\ \A tk \in Tasks : tasks[tk].pc = "waiting" => tasks[tk].woken
    /\ (lastCall.op = "readPacket" /\ lastCall.ret # "nil") =>
          (lastCall.ret = readError /\ readError # "nil" /\ incoming = <<>>)
    /\ (lastCall.op = "writePacket" /\ lastCall.late) => lastCall.ret = writeError

\* C8: once a failed read has ended the read loop, the read error is
\* recorded, the queue is closed and drains to that error, the write error
\* equals the read error, blocked writers are woken, and from then on every
\* writePacket returns that error and nothing more is written to the
\* connection.
C8_ReadFailureShutsDown ==
    /\ []ReadSideDown
    /\ [][(rl.pc = "done" /\ hs.pc = "done") => wire' = wire]_vars

\* no wake-up is lost: a writer waiting unwoken still has its condition
NoLostWakeup ==
    \A tk \in Tasks :
        (tasks[tk].pc = "waiting" /\ ~tasks[tk].woken) =>
            (sentInitMsg /\ writeError = "nil")

\* a call that returned at the write-error check returned the recorded error
SameError ==
    (lastCall.op = "writePacket" /\ lastCall.via = "writeError") =>
        (writeError # "nil" /\ lastCall.ret = writeError)

\* a blocked call that returns returns the write error when one is recorded,
\* and goes on to forward its packet when none is
BlockedReturn ==
    \A tk \in Tasks :
        (tasks[tk].pc = "waiting" /\ tasks'[tk].pc = "idle") =>
            /\ lastCall'.blocked
            /\ (lastCall'.via = "writeError") = (writeError # "nil")
            /\ writeError = "nil" => lastCall'.via \in {"switch", "conn"}

RekeyDeadlock ==
    /\ rl.pc = "got"
    /\ rl.p.type \notin {msgIgnore, msgDebug}
    /\ Len(incoming) = incomingCap
    /\ sentInitMsg
    /\ writeError = "nil"
    /\ \A tk \in Tasks : tasks[tk].pc = "waiting" /\ ~tasks[tk].woken

\* C4: no reachable state has the read loop blocked on the full inbound
\* queue while every consumer of the queue is blocked in writePacket waiting
\* for the outstanding KEXINIT to be answered.
C4_NoRekeyDeadlock == ~RekeyDeadlock

(***************************************************************************)
(* findCommon, called once with any category and any two lists.            *)
(***************************************************************************)
\* the transport at rest: made, nothing to read, no call to come
TransportIdle ==
    /\ newHandshakeTransport([RekeyThreshold |-> defaultRekeyThreshold, HelloOnly |-> TRUE],
                             0, 0, 0)
    /\ DialIdle

AlgoNames == {"aes128-ctr", "aes256-ctr", "arcfour"}
AlgoLists == UNION {[1..k -> AlgoNames] : k \in 0..MaxAlgos}
Whats == {"key exchange", "client to server cipher"}

InitCommon ==
    /\ TransportIdle /\ GlobalRequestsIdle /\ DefaultsIdle /\ KexEntryIdle /\ WindowIdle /\ ClientIdle
    /\ agreed = NoAgreed
    /\ \E what \in Whats, client \in AlgoLists, server \in AlgoLists :
           nego = [NoNego EXCEPT !.pc = "call", !.what = what, !.client = client,
                                 !.server = server]

FindCommon ==
    /\ nego.pc = "call"
    /\ LET r == findCommon(nego.what, nego.client, nego.server)
       IN nego' = [nego EXCEPT !.pc = "done", !.common = r.common, !.err = r.err]
    /\ UNCHANGED <<htvars, agreed, wvars, cvars, dvars, gvars, svars, kvars>>

NextCommon == FindCommon

SpecCommon == InitCommon /\ [][NextCommon]_vars

Range(list) == {list[i] : i \in 1..Len(list)}

\* the lists with the elements of list in any order
Permuted(list) ==
    {[i \in 1..Len(list) |-> list[f[i]]] :
        f \in {g \in [1..Len(list) -> 1..Len(list)] : \A i, j \in 1..Len(list) : g[i] = g[j] => i = j}}

\* C11: when the two lists share a name, findCommon returns no error and the
\* shared name with the smallest index in the client's list, whatever the
\* order of the server's list.
C11_ClientPreferenceDecides ==
    (nego.pc = "done" /\ Range(nego.client) \cap Range(nego.server) # {}) =>
        /\ nego.err = NilError
        /\ \E i \in 1..Len(nego.client) :
               /\ nego.client[i] \in Range(nego.server)
               /\ \A j \in 1..(i - 1) : nego.client[j] \notin Range(nego.server)
               /\ nego.common = nego.client[i]
        /\ \A sv \in Permuted(nego.server) :
               findCommon(nego.what, nego.client, sv) = [common |-> nego.common, err |-> NilError]

\* two names are shared and the server lists first the one the client lists last
C11_Witness ==
    /\ nego.pc = "done"
    /\ Len(nego.client) >= 2 /\ Len(nego.server) >= 2
    /\ nego.server[1] \in Range(nego.client)
    /\ nego.common \in Range(nego.server)
    /\ nego.common # nego.server[1]
    /\ nego.err = NilError

\* C12: when the two lists share no name, an empty list included, findCommon
\* returns the empty name and an error whose text holds the category and
\* both lists as %v prints them.
C12_NoCommonIsAnError ==
    (nego.pc = "done" /\ Range(nego.client) \cap Range(nego.server) = {}) =>
        /\ nego.common = ""
        /\ ~nego.err.isNil
        /\ nego.err.text = <<"ssh: no common algorithm for ", nego.what,
                             "; client offered: ", FmtV(nego.client),
                             ", server offered: ", FmtV(nego.server)>>
        /\ nego.client = <<>> => nego.err.text[4] = "[]"
        /\ nego.server = <<"arcfour", "aes128-ctr">> => nego.err.text[6] = "[arcfour aes128-ctr]"

\* an empty client list against a server that offers something
C12_Witness ==
    /\ nego.pc = "done"
    /\ nego.client = <<>> /\ Len(nego.server) = 2
    /\ ~nego.err.isNil
    /\ nego.what = "client to server cipher"

(***************************************************************************)
(* findAgreedAlgorithms, called once with any two KEXINITs whose lists     *)
(* are drawn from what a client and a server may offer.                    *)
(***************************************************************************)
ClientOffers == {<<"aes128-ctr", "aes256-ctr">>, <<"aes256-ctr">>}
ServerOffers == {<<"aes256-ctr", "aes128-ctr">>, <<"arcfour">>}

InitAgreed ==
    /\ TransportIdle /\ GlobalRequestsIdle /\ DefaultsIdle /\ KexEntryIdle /\ WindowIdle /\ ClientIdle
    /\ nego = NoNego
    /\ \E c \in [KexInitFields -> ClientOffers], s \in [KexInitFields -> ServerOffers] :
           agreed = [NoAgreed EXCEPT !.pc = "call", !.clientKexInit = c, !.serverKexInit = s]

FindAgreedAlgorithms ==
    /\ agreed.pc = "call"
    /\ LET r == findAgreedAlgorithms(agreed.clientKexInit, agreed.serverKexInit)
       IN agreed' = [agreed EXCEPT !.pc = "done", !.algs = r.algs, !.err = r.err]
    /\ UNCHANGED <<htvars, nego, wvars, cvars, dvars, gvars, svars, kvars>>

NextAgreed == FindAgreedAlgorithms

SpecAgreed == InitAgreed /\ [][NextAgreed]_vars

\* the name both lists hold that comes first in cl; "" when there is none
FirstCommon(cl, sv) ==
    LET I == {i \in 1..Len(cl) : cl[i] \in Range(sv)}
    IN IF I = {} THEN "" ELSE cl[CHOOSE i \in I : \A j \in I : i <= j]

\* the categories in the order of the claim, each with its list of the KEXINIT
CategoryOrder ==
    << <<"key exchange", "KexAlgos">>,
       <<"host key", "ServerHostKeyAlgos">>,
       <<"client to server cipher", "CiphersClientServer">>,
       <<"server to client cipher", "CiphersServerClient">>,
       <<"client to server MAC", "MACsClientServer">>,
       <<"server to client MAC", "MACsServerClient">>,
       <<"client to server compression", "CompressionClientServer">>,
       <<"server to client compression", "CompressionServerClient">> >>

\* the categories in which the two KEXINITs of the call share no name
Unmatched ==
    {i \in 1..Len(CategoryOrder) :
        FirstCommon(agreed.clientKexInit[CategoryOrder[i][2]],
                    agreed.serverKexInit[CategoryOrder[i][2]]) = ""}

SameCategory(fd) == FirstCommon(agreed.clientKexInit[fd], agreed.serverKexInit[fd])

\* C13: every category is matched against the same category of the other
\* side, W from the client-to-server lists and R from the server-to-client
\* lists; the categories are checked in the order kex, host key, ciphers,
\* MACs, compressions (client-to-server first), and the first one without a
\* common name gives its error and a nil Algorithms.
C13_SameCategoryInOrder ==
    agreed.pc = "done" =>
        IF Unmatched = {}
        THEN /\ agreed.err = NilError
             /\ agreed.algs =
                    [isNil |-> FALSE,
                     Kex |-> SameCategory("KexAlgos"),
                     HostKey |-> SameCategory("ServerHostKeyAlgos"),
                     W |-> [Cipher |-> SameCategory("CiphersClientServer"),
                            MAC |-> SameCategory("MACsClientServer"),
                            Compression |-> SameCategory("CompressionClientServer")],
                     R |-> [Cipher |-> SameCategory("CiphersServerClient"),
                            MAC |-> SameCategory("MACsServerClient"),
                            Compression |-> SameCategory("CompressionServerClient")]]
        ELSE LET first == CHOOSE i \in Unmatched : \A j \in Unmatched : i <= j
             IN /\ agreed.algs.isNil
                /\ ~agreed.err.isNil
                /\ agreed.err.text[2] = CategoryOrder[first][1]
                /\ agreed.err.text[4] = FmtV(agreed.clientKexInit[CategoryOrder[first][2]])
                /\ agreed.err.text[6] = FmtV(agreed.serverKexInit[CategoryOrder[first][2]])

\* the two directions agree on different ciphers, and the call succeeds
C13_Witness ==
    /\ agreed.pc = "done"
    /\ agreed.err = NilError
    /\ agreed.algs.W.Cipher = "aes128-ctr"
    /\ agreed.algs.R.Cipher = "aes256-ctr"
    /\ agreed.algs.W.MAC # agreed.algs.R.MAC

(***************************************************************************)
(* window: reserve, add and close.  Each runs under w.L, so a call is one  *)
(* step up to its return or up to w.Wait(), and a woken waiter is one step *)
(* from its wake-up to its return or its next w.Wait().                    *)
(***************************************************************************)
wakeNone(rs) == rs

\* Signal in place of Broadcast: one waiter is woken
wakeOne(rs) ==
    IF \E r \in Reservers : rs[r].pc = "waiting" /\ ~rs[r].woken
    THEN LET r == CHOOSE r \in Reservers : rs[r].pc = "waiting" /\ ~rs[r].woken
         IN [rs EXCEPT ![r].woken = TRUE]
    ELSE rs

\* w.Broadcast()
wakeAll(rs) ==
    [r \in Reservers |-> IF rs[r].pc = "waiting" THEN [rs[r] EXCEPT !.woken = TRUE]
                                                 ELSE rs[r]]

\* for w.win == 0 && !w.closed
mustBlock(win, closed) == win = Zero32 /\ ~closed

grantedAll(want, credit) == want

\* if w.win < win { win = w.win }
granted(want, credit) == IF lt32(credit, want) THEN credit ELSE want

reserveErrNil(closed) == "nil"

\* if w.closed { err = io.EOF }
reserveErr(closed) == IF closed THEN EOF ELSE "nil"

\* an overflow test on the high halves alone
addOverflowsHigh(credit, win) == credit[1] + win[1] >= Half

addOverflowsNever(credit, win) == FALSE

\* if w.win+win < win
addOverflows(credit, win) == lt32(add32(credit, win), win)

WindowFrame == UNCHANGED <<htvars, nvars, cvars, dvars, gvars, svars, kvars>>

\* the end of reserve, from the loop's exit to the return; w1 is the window
\* with the caller counted in writeWaiters
ReserveReturn(r, want, w1, rs, blocked) ==
    LET win == granted(want, w1.win)
        w2 == [w1 EXCEPT !.writeWaiters = w1.writeWaiters - 1, !.win = sub32(w1.win, win)]
    IN /\ w' = w2
       /\ reservers' = [rs EXCEPT ![r] = IdleReserver]
       /\ wlast' = [op |-> "reserve", by |-> r, arg |-> want, ret |-> win, ok |-> TRUE,
                    err |-> reserveErr(w1.closed), before |-> w1, after |-> w2,
                    blocked |-> blocked, at |-> 0]

\* reserve(win) up to its return or its first w.Wait()
Reserve(r, win) ==
    /\ wcalls > 0
    /\ reservers[r].pc = "idle"
    /\ wcalls' = wcalls - 1
    /\ LET w1 == [w EXCEPT !.writeWaiters = w.writeWaiters + 1]
           rs == wakeAll(reservers)
       IN IF mustBlock(w1.win, w1.closed)
          THEN /\ w' = w1
               /\ reservers' = [rs EXCEPT ![r] = [pc |-> "waiting", win |-> win,
                                                  woken |-> FALSE]]
               /\ UNCHANGED wlast
          ELSE ReserveReturn(r, win, w1, rs, FALSE)
    /\ WindowFrame

\* a waiter woken by a Broadcast has w.L again and tests the loop condition
ReserveWake(r) ==
    /\ reservers[r].pc = "waiting"
    /\ reservers[r].woken
    /\ IF mustBlock(w.win, w.closed)
       THEN /\ reservers' = [reservers EXCEPT ![r].woken = FALSE]
            /\ UNCHANGED <<w, wlast>>
       ELSE ReserveReturn(r, reservers[r].win, w, reservers, TRUE)
    /\ UNCHANGED wcalls
    /\ WindowFrame

add(win) ==
    /\ wcalls > 0
    /\ wcalls' = wcalls - 1
    /\ IF win = Zero32
       THEN /\ wlast' = [NoWindowCall EXCEPT !.op = "add", !.arg = win, !.ok = TRUE,
                                             !.before = w, !.after = w, !.at = wcalls]
            /\ UNCHANGED <<w, reservers>>
       ELSE IF addOverflows(w.win, win)
       THEN /\ wlast' = [NoWindowCall EXCEPT !.op = "add", !.arg = win, !.ok = FALSE,
                                             !.before = w, !.after = w, !.at = wcalls]
            /\ UNCHANGED <<w, reservers>>
       ELSE LET w2 == [w EXCEPT !.win = add32(w.win, win)]
            IN /\ w' = w2
               /\ reservers' = wakeAll(reservers)
               /\ wlast' = [NoWindowCall EXCEPT !.op = "add", !.arg = win, !.ok = TRUE,
                                                !.before = w, !.after = w2, !.at = wcalls]
    /\ WindowFrame

close ==
    /\ wcalls > 0
    /\ wcalls' = wcalls - 1
    /\ w' = [w EXCEPT !.closed = TRUE]
    /\ reservers' = wakeAll(reservers)
    /\ wlast' = [NoWindowCall EXCEPT !.op = "close", !.before = w,
                                     !.after = [w EXCEPT !.closed = TRUE],
                                     !.at = wcalls]
    /\ WindowFrame

\* the amounts of credit the calls are made with: 0, 1, 2, 2^16 - 1, 2^31,
\* 2^32 - 2 and 2^32 - 1
Amounts == {Zero32, U32(0, 1), U32(0, 2), U32(0, Half - 1), U32(Half \div 2, 0),
            U32(Half - 1, Half - 2), Max32}

InitWindow ==
    /\ TransportIdle /\ GlobalRequestsIdle /\ DefaultsIdle /\ KexEntryIdle /\ NegotiationIdle /\ ClientIdle
    /\ \E credit \in Amounts : newWindow(credit, MaxWindowCalls)

NextWindow ==
    \/ \E r \in Reservers, win \in Amounts : Reserve(r, win)
    \/ \E r \in Reservers : ReserveWake(r)
    \/ \E win \in Amounts : add(win)
    \/ close

SpecWindow == InitWindow /\ [][NextWindow]_vars

\* the goroutines are scheduled fairly: a woken waiter gets w.L and runs
SpecWindowLive ==
    /\ InitWindow
    /\ [][NextWindow]_vars
    /\ \A r \in Reservers : WF_vars(ReserveWake(r))

(***************************************************************************)
(* Properties of the window.                                               *)
(***************************************************************************)
Waiting == {r \in Reservers : reservers[r].pc = "waiting"}

\* the step is the return of a reserve call
ReserveReturns(r) == reservers[r].pc = "waiting" /\ reservers'[r].pc = "idle"

\* the step is a call of add
AddCalled == wcalls' = wcalls - 1 /\ wlast'.op = "add" /\ wlast'.at = wcalls

\* the sum of what the reservers of S ask for, as <<high, low>> with the high
\* part not reduced
RECURSIVE Wanted(_)
Wanted(S) ==
    IF S = {} THEN <<0, 0>>
    ELSE LET r == CHOOSE r \in S : TRUE
             rest == Wanted(S \ {r})
             lo == rest[2] + reservers[r].win[2]
         IN <<rest[1] + reservers[r].win[1] + (lo \div Half), lo % Half>>

\* C14: a reserve that returns on an open window found credit, returns no
\* error and the smaller of the request and the credit, and takes exactly
\* that off the credit; a call waits only on an open window without credit.
C14_ReserveGrantsMin ==
    /\ [](wlast.op = "reserve" /\ ~wlast.before.closed =>
            /\ wlast.before.win # Zero32
            /\ wlast.err = "nil"
            /\ ~lt32(wlast.arg, wlast.ret)
            /\ ~lt32(wlast.before.win, wlast.ret)
            /\ wlast.ret = wlast.arg \/ wlast.ret = wlast.before.win
            /\ ~lt32(wlast.before.win, wlast.after.win)
            /\ add32(wlast.after.win, wlast.ret) = wlast.before.win)
    /\ [][\A r \in Reservers :
             (reservers[r].pc = "idle" /\ reservers'[r].pc = "waiting") =>
                 (w.win = Zero32 /\ ~w.closed)]_vars

\* a call that did not wait asked for more than there was and got what there was
C14_Witness ==
    /\ wlast.op = "reserve"
    /\ ~wlast.blocked /\ ~wlast.before.closed
    /\ lt32(wlast.before.win, wlast.arg)
    /\ wlast.ret = wlast.before.win
    /\ wlast.before.win = U32(0, Half - 1)
    /\ wlast.after.win = Zero32

\* C15: a reserve does not return from a window that is open and without
\* credit; under fair scheduling a waiter returns once the window is
\* closed, and once there is credit unless the credit is gone again before
\* it runs, in which case it goes on waiting.
C15_ReserveWaitsForCreditOrClose ==
    /\ [](wlast.op = "reserve" => (wlast.before.win # Zero32 \/ wlast.before.closed))
    /\ [][\A r \in Reservers : ReserveReturns(r) => (w.win # Zero32 \/ w.closed)]_vars
    /\ \A r \in Reservers :
           (reservers[r].pc = "waiting" /\ w.closed) ~> (reservers[r].pc = "idle")
    /\ \A r \in Reservers :
           (reservers[r].pc = "waiting" /\ w.win # Zero32)
               ~> (reservers[r].pc = "idle" \/ w.win = Zero32)

\* r1 was waiting when credit came, r2 took all of it, and r1 has run since
\* and waits again
C15_Witness ==
    /\ reservers["r1"].pc = "waiting" /\ ~reservers["r1"].woken
    /\ wlast.op = "reserve" /\ wlast.by = "r2"
    /\ wlast.before.writeWaiters = 2
    /\ wlast.before.win # Zero32
    /\ w.win = Zero32 /\ ~w.closed

\* C16 as stated: a reserve that returns on a closed window grants 0 with the
\* end-of-stream error, whatever the credit; one that returns 0 on an open
\* window returns no error.
C16_AsStated ==
    wlast.op = "reserve" =>
        /\ wlast.before.closed => (wlast.ret = Zero32 /\ wlast.err = EOF)
        /\ (~wlast.before.closed /\ wlast.ret = Zero32) => wlast.err = "nil"

\* C16: a reserve that returns on a closed window returns the end-of-stream
\* error with the smaller of the request and the credit, taken off the
\* credit (0 when there is no credit); one that returns on an open window
\* returns no error.
C16_ClosedReserveReturnsEOF ==
    wlast.op = "reserve" =>
        /\ wlast.before.closed =>
              /\ wlast.err = EOF
              /\ ~lt32(wlast.arg, wlast.ret)
              /\ ~lt32(wlast.before.win, wlast.ret)
              /\ wlast.ret = wlast.arg \/ wlast.ret = wlast.before.win
              /\ add32(wlast.after.win, wlast.ret) = wlast.before.win
              /\ wlast.before.win = Zero32 => wlast.ret = Zero32
        /\ ~wlast.before.closed => wlast.err = "nil"

\* a reserve on a closed window that still had credit
C16_Witness ==
    /\ wlast.op = "reserve"
    /\ wlast.before.closed
    /\ wlast.err = EOF
    /\ wlast.ret = U32(0, 2)
    /\ wlast.before.win = Max32

\* C17: add(n) with credit + n above 2^32 - 1 returns false and leaves the
\* window as it was; any other add of n > 0 returns true and makes the
\* credit credit + n, the rest of the window as it was.
C17_AddRejectsOverflow ==
    wlast.op = "add" =>
        LET lo == wlast.before.win[2] + wlast.arg[2]
            hi == wlast.before.win[1] + wlast.arg[1] + (lo \div Half)
        IN IF hi >= Half
           THEN ~wlast.ok /\ wlast.after = wlast.before
           ELSE wlast.arg # Zero32 =>
                    /\ wlast.ok
                    /\ wlast.after = [wlast.before EXCEPT !.win = <<hi, lo % Half>>]

\* 2^31 added to 2^31: the sum is 2^32
C17_Witness ==
    /\ wlast.op = "add"
    /\ ~wlast.ok
    /\ wlast.before.win = U32(Half \div 2, 0)
    /\ wlast.arg = U32(Half \div 2, 0)
    /\ w.win = U32(Half \div 2, 0)

\* the last call was an add of n > 0 that succeeded, no other call is made
\* on the window, and the credit covers what the waiting reservers ask for
CreditForAll ==
    /\ wcalls = 0 /\ ~w.closed
    /\ wlast.op = "add" /\ wlast.ok /\ wlast.arg # Zero32
    /\ \/ Wanted(Waiting)[1] < w.win[1]
       \/ Wanted(Waiting)[1] = w.win[1] /\ Wanted(Waiting)[2] <= w.win[2]

\* C18 as stated: add(0) returns true, changes nothing and wakes nobody; an
\* add of n > 0 that succeeds wakes every waiting reserver, and when the
\* credit then covers what all of them ask for, all of them return.
C18_AsStated ==
    /\ [][(AddCalled /\ wlast'.arg = Zero32) =>
              (wlast'.ok /\ w' = w /\ reservers' = reservers)]_vars
    /\ [][(AddCalled /\ wlast'.arg # Zero32 /\ wlast'.ok) =>
              \A r \in Waiting : reservers'[r].pc = "waiting" /\ reservers'[r].woken]_vars
    /\ CreditForAll ~> (Waiting = {})

\* C18: add(0) returns true, changes nothing and wakes nobody; an add of
\* n > 0 that succeeds wakes every waiting reserver, and when the credit
\* then covers what all of them ask for, each of them asks for more than 0
\* and no other call is made on the window, all of them return.
C18_AddWakesEveryWaiter ==
    /\ [][(AddCalled /\ wlast'.arg = Zero32) =>
              (wlast'.ok /\ w' = w /\ reservers' = reservers)]_vars
    /\ [][(AddCalled /\ wlast'.arg # Zero32 /\ wlast'.ok) =>
              \A r \in Waiting : reservers'[r].pc = "waiting" /\ reservers'[r].woken]_vars
    /\ (CreditForAll /\ \A r \in Waiting : reservers[r].win # Zero32) ~> (Waiting = {})

\* both reservers wait, for 1 and for 2, and an add has brought enough for both
C18_Witness ==
    /\ wcalls = 0 /\ ~w.closed
    /\ wlast.op = "add" /\ wlast.ok /\ wlast.arg # Zero32
    /\ Waiting = Reservers
    /\ \A r \in Reservers : reservers[r].woken
    /\ Wanted(Reservers) = <<0, 3>>
    /\ ~lt32(w.win, U32(0, 3))

(***************************************************************************)
(* Client: HandleChannelOpen and the goroutine of handleChannelOpens.      *)
(* The mux that feeds the channel `in` and closes it, and ch.Reject, are   *)
(* external: a channel-open of any type may come next, and the channel may *)
(* be closed at any time.                                                  *)
(***************************************************************************)
ClientFrame == UNCHANGED <<htvars, nvars, wvars, dvars, gvars, svars, kvars>>

\* make(chan NewChannel, 16), and the closed channel of a torn-down registry
newQueue(ty) == [type |-> ty, items |-> <<>>, closed |-> FALSE]
\* a torn-down registry that hands out an open queue
closedQueueOpen(ty) == [type |-> ty, items |-> <<>>, closed |-> FALSE]

closedQueue(ty) == [type |-> ty, items |-> <<>>, closed |-> TRUE]

registeredNever(handlers, ty) == FALSE

\* ch := c.channelHandlers[channelType]; ch != nil
registered(handlers, ty) == handlers.byType[ty] # NoQueue

\* the dispatcher returns after a rejection
afterRejectStop == "done"

\* the loop goes on with the next channel-open
afterReject == "range"

HandleChannelOpen(ty) ==
    /\ in.calls > 0
    /\ in' = [in EXCEPT !.calls = in.calls - 1]
    /\ LET id == Len(chanQueues) + 1
       IN IF channelHandlers.isNil
          THEN /\ chanQueues' = Append(chanQueues, closedQueue(ty))
               /\ hcoLog' = Append(hcoLog, [type |-> ty, ret |-> id, live |-> FALSE])
               /\ UNCHANGED channelHandlers
          ELSE IF registered(channelHandlers, ty)
          THEN /\ hcoLog' = Append(hcoLog, [type |-> ty, ret |-> NoQueue, live |-> TRUE])
               /\ UNCHANGED <<channelHandlers, chanQueues>>
          ELSE /\ chanQueues' = Append(chanQueues, newQueue(ty))
               /\ channelHandlers' = [channelHandlers EXCEPT !.byType[ty] = id]
               /\ hcoLog' = Append(hcoLog, [type |-> ty, ret |-> id, live |-> TRUE])
    /\ UNCHANGED <<dispatcher, rejected>>
    /\ ClientFrame

\* for ch := range in: the next channel-open, of type ty
Dispatch_Receive(ty) ==
    /\ dispatcher.pc = "range"
    /\ ~in.closed
    /\ in.left > 0
    /\ in' = [in EXCEPT !.left = in.left - 1, !.next = in.next + 1]
    /\ dispatcher' = [pc |-> "lookup", ch |-> in.next, type |-> ty, handler |-> NoQueue]
    /\ UNCHANGED <<channelHandlers, chanQueues, hcoLog, rejected>>
    /\ ClientFrame

\* c.mu.Lock(); handler := c.channelHandlers[ch.ChannelType()]; c.mu.Unlock()
Dispatch_Lookup ==
    /\ dispatcher.pc = "lookup"
    /\ LET handler == channelHandlers.byType[dispatcher.type]
       IN dispatcher' = [dispatcher EXCEPT !.handler = handler,
                                           !.pc = IF handler # NoQueue THEN "send"
                                                                       ELSE "reject"]
    /\ UNCHANGED <<channelHandlers, chanQueues, in, hcoLog, rejected>>
    /\ ClientFrame

\* handler <- ch
Dispatch_Send ==
    /\ dispatcher.pc = "send"
    /\ Len(chanQueues[dispatcher.handler].items) < handlerCap
    /\ chanQueues' = [chanQueues EXCEPT ![dispatcher.handler].items =
                          Append(@, [ch |-> dispatcher.ch, type |-> dispatcher.type])]
    /\ dispatcher' = [dispatcher EXCEPT !.pc = "range"]
    /\ UNCHANGED <<channelHandlers, in, hcoLog, rejected>>
    /\ ClientFrame

\* ch.Reject(UnknownChannelType, ...)
Dispatch_Reject ==
    /\ dispatcher.pc = "reject"
    /\ rejected' = Append(rejected, [ch |-> dispatcher.ch, type |-> dispatcher.type,
                                     reason |-> UnknownChannelType])
    /\ dispatcher' = [dispatcher EXCEPT !.pc = afterReject]
    /\ UNCHANGED <<channelHandlers, chanQueues, in, hcoLog>>
    /\ ClientFrame

\* the mux closes the channel of channel-opens
In_Close ==
    /\ ~in.closed
    /\ in' = [in EXCEPT !.closed = TRUE]
    /\ UNCHANGED <<channelHandlers, chanQueues, dispatcher, hcoLog, rejected>>
    /\ ClientFrame

\* after the loop: every registered queue is closed, the registry set to nil
Dispatch_Teardown ==
    /\ dispatcher.pc = "range"
    /\ in.closed
    /\ chanQueues' = [q \in 1..Len(chanQueues) |->
                         IF \E ty \in ChannelTypes : channelHandlers.byType[ty] = q
                         THEN [chanQueues[q] EXCEPT !.closed = TRUE]
                         ELSE chanQueues[q]]
    /\ channelHandlers' = NilMap
    /\ dispatcher' = [dispatcher EXCEPT !.pc = "done"]
    /\ UNCHANGED <<in, hcoLog, rejected>>
    /\ ClientFrame

InitClient ==
    /\ TransportIdle /\ GlobalRequestsIdle /\ DefaultsIdle /\ KexEntryIdle /\ NegotiationIdle /\ WindowIdle
    /\ NewClient(MaxOpens, MaxHandleCalls)

NextClient ==
    \/ \E ty \in ChannelTypes : HandleChannelOpen(ty)
    \/ \E ty \in ChannelTypes : Dispatch_Receive(ty)
    \/ Dispatch_Lookup
    \/ Dispatch_Send
    \/ Dispatch_Reject
    \/ In_Close
    \/ Dispatch_Teardown

SpecClient == InitClient /\ [][NextClient]_vars

(***************************************************************************)
(* Properties of the client.                                               *)
(***************************************************************************)
\* the places the channel-open id has gone to: rejections and queue slots
Rejections(id) == {i \in 1..Len(rejected) : rejected[i].ch = id}
QueueSlots(id) ==
    UNION {{<<q, i>> : i \in {k \in 1..Len(chanQueues[q].items) :
                                  chanQueues[q].items[k].ch = id}} :
              q \in 1..Len(chanQueues)}

\* the dispatcher is through with the channel-open id
Dispatched(id) ==
    \/ id < dispatcher.ch
    \/ id = dispatcher.ch /\ dispatcher.pc \in {"range", "done"}

LookupStep == dispatcher.pc = "lookup" /\ dispatcher'.pc # "lookup"
SendStep == dispatcher.pc = "send" /\ dispatcher' # dispatcher
RejectStep == dispatcher.pc = "reject" /\ dispatcher' # dispatcher

\* C19: a channel-open whose type has a queue registered when the
\* dispatcher looks it up goes to the end of that queue and is not rejected;
\* any other is rejected once, with UnknownChannelType, and goes to no
\* queue; either way the dispatcher then takes the next channel-open.
C19_DispatchOrReject ==
    /\ [](\A id \in 1..MaxOpens + 1 :
            /\ Cardinality(Rejections(id)) + Cardinality(QueueSlots(id)) <= 1
            /\ (id < in.next /\ Dispatched(id)) =>
                   Cardinality(Rejections(id)) + Cardinality(QueueSlots(id)) = 1
            /\ \A i \in Rejections(id) : rejected[i].reason = UnknownChannelType
            /\ \A sl \in QueueSlots(id) :
                   chanQueues[sl[1]].items[sl[2]].type = chanQueues[sl[1]].type)
    /\ [][LookupStep =>
             IF channelHandlers.byType[dispatcher.type] # NoQueue
             THEN /\ dispatcher'.pc = "send"
                  /\ dispatcher'.handler = channelHandlers.byType[dispatcher.type]
             ELSE dispatcher'.pc = "reject"]_vars
    /\ [][SendStep =>
             /\ chanQueues'[dispatcher.handler].items =
                    Append(chanQueues[dispatcher.handler].items,
                           [ch |-> dispatcher.ch, type |-> dispatcher.type])
             /\ rejected' = rejected
             /\ dispatcher'.pc = "range"]_vars
    /\ [][RejectStep =>
             /\ rejected' = Append(rejected, [ch |-> dispatcher.ch, type |-> dispatcher.type,
                                              reason |-> UnknownChannelType])
             /\ chanQueues' = chanQueues
             /\ dispatcher'.pc = "range"]_vars

\* the first channel-open was rejected for its type, the second is on the
\* queue of its type, and the type of the first has been registered since
C19_Witness ==
    /\ Len(rejected) = 1
    /\ rejected[1].ch = 1 /\ rejected[1].type = "custom-type"
    /\ channelHandlers.byType["custom-type"] # NoQueue
    /\ channelHandlers.byType["session"] # NoQueue
    /\ chanQueues[channelHandlers.byType["session"]].items = <<[ch |-> 2, type |-> "session"]>>
    /\ dispatcher.pc = "range"

\* the step is a call of HandleChannelOpen
HandleChannelOpenCalled == Len(hcoLog') = Len(hcoLog) + 1

\* C20: while the registry is live the first HandleChannelOpen(t) returns a
\* new open queue and registers it, every later one returns nil and changes
\* nothing, so of any number of callers for one type one gets the queue;
\* once the registry is torn down every call returns a new closed queue and
\* registers nothing.
C20_RegisterOnce ==
    /\ [](\A j \in 1..Len(hcoLog) :
            /\ hcoLog[j].live =>
                   (hcoLog[j].ret # NoQueue <=>
                        \A i \in 1..(j - 1) : hcoLog[i].type # hcoLog[j].type)
            /\ ~hcoLog[j].live =>
                   /\ hcoLog[j].ret # NoQueue
                   /\ chanQueues[hcoLog[j].ret].closed
                   /\ channelHandlers.isNil
            /\ \A i \in 1..(j - 1) :
                   hcoLog[j].ret # NoQueue => hcoLog[i].ret # hcoLog[j].ret)
    /\ [][HandleChannelOpenCalled =>
             LET e == hcoLog'[Len(hcoLog')]
             IN IF e.ret = NoQueue
                THEN channelHandlers' = channelHandlers /\ chanQueues' = chanQueues
                ELSE /\ e.ret = Len(chanQueues) + 1
                     /\ chanQueues' = Append(chanQueues,
                            [type |-> e.type, items |-> <<>>, closed |-> ~e.live])
                     /\ channelHandlers' =
                            IF e.live THEN [channelHandlers EXCEPT !.byType[e.type] = e.ret]
                                      ELSE channelHandlers]_vars

\* three calls for one type: a queue, nil, and after the teardown a closed queue
C20_Witness ==
    /\ Len(hcoLog) = 3
    /\ \A j \in 1..3 : hcoLog[j].type = "session"
    /\ hcoLog[1].ret = 1 /\ hcoLog[1].live
    /\ hcoLog[2].ret = NoQueue /\ hcoLog[2].live
    /\ hcoLog[3].ret = 2 /\ ~hcoLog[3].live
    /\ chanQueues[2].closed

(***************************************************************************)
(* The client with handlers that may or may not drain their queues, under  *)
(* fair scheduling of the dispatcher goroutine: its lookup, its send when  *)
(* the queue has room, its rejection and its teardown get to run.  The     *)
(* peer opens channels of one type.                                        *)
(***************************************************************************)
FullTypes == {"session", "custom-type"}

\* a handler receives the next channel-open of the queue q
Handler_Receive(q) ==
    /\ q \in 1..Len(chanQueues)
    /\ chanQueues[q].items # <<>>
    /\ chanQueues' = [chanQueues EXCEPT ![q].items = Tail(@)]
    /\ UNCHANGED <<channelHandlers, in, dispatcher, hcoLog, rejected>>
    /\ ClientFrame

DispatcherRuns ==
    \/ Dispatch_Lookup
    \/ Dispatch_Send
    \/ Dispatch_Reject
    \/ Dispatch_Teardown

InitClientFull ==
    /\ TransportIdle /\ GlobalRequestsIdle /\ DefaultsIdle /\ KexEntryIdle /\ NegotiationIdle /\ WindowIdle
    /\ NewClient(FullOpens, FullHandleCalls)

NextClientFull ==
    \/ \E ty \in FullTypes : HandleChannelOpen(ty)
    \/ Dispatch_Receive("custom-type")
    \/ DispatcherRuns
    \/ In_Close
    \/ \E q \in 1..FullHandleCalls : Handler_Receive(q)

SpecClientFull ==
    /\ InitClientFull
    /\ [][NextClientFull]_vars
    /\ WF_vars(DispatcherRuns)

\* every queue HandleChannelOpen has returned is closed
QueuesClosed ==
    \A j \in 1..Len(hcoLog) :
        hcoLog[j].ret # NoQueue => chanQueues[hcoLog[j].ret].closed

\* C21: once the stream of channel-opens is closed the dispatcher closes
\* every registered queue and clears the registry, whatever the queues hold
\* and whether or not the handlers receive from them.
C21_TeardownAfterClose ==
    in.closed ~> (dispatcher.pc = "done" /\ channelHandlers.isNil /\ QueuesClosed)

(***************************************************************************)
(* The host key in the client-role key exchange.                           *)
(***************************************************************************)
HostKeyErrors == {ErrHostKeyParse, ErrHostKeySig, ErrHostKeyCallback}

\* the key exchange in progress ends with a host-key error in this step
HostKeyRefused == rl.pc = "kexRun" /\ rl'.pc = "failed" /\ rl'.err \in HostKeyErrors

\* every kexResult given to prepareKeyChange passed the host-key checks
KeysFromAcceptedHostKey == \A i \in DOMAIN keyChanges : keyChanges[i].HostKey = "result"

\* C22: a key exchange whose host key cannot be parsed, whose signature does
\* not verify or whose callback refuses it installs no keys (no
\* prepareKeyChange), writes no NEWKEYS and sets no session ID; the
\* connection is closed and the write path fails with that error.  Keys are
\* only ever prepared from a result whose host key passed all three checks.
C22_HostKeyFailureInstallsNothing ==
    [][/\ KeysFromAcceptedHostKey'
       /\ HostKeyRefused =>
             /\ keyChanges' = keyChanges
             /\ sessionID' = sessionID
             /\ wire' = wire
             /\ conn'.closed
             /\ writeError' = rl'.err]_vars

\* C22 witness: a rekey refused by the host-key callback after a first
\* exchange that installed keys
C22_Witness ==
    /\ rl.pc = "failed"
    /\ rl.err = ErrHostKeyCallback
    /\ Len(keyChanges) = 1
    /\ sessionID = keyChanges[1].H
    /\ conn.closed
    /\ writeError = ErrHostKeyCallback
    /\ \A i \in DOMAIN wire : wire[i].type = msgNewKeys => i < Len(wire)

(***************************************************************************)
(* Dial and NewClientConn.  net.DialTimeout, exchangeVersions and          *)
(* clientAuthenticate are calls that succeed or fail as the network and    *)
(* the peer decide.  dial.deadline is the deadline of the net.Conn: "none",*)
(* "armed" by SetDeadline, "expired" once its time has passed; from then   *)
(* on every read of the connection fails with a timeout.                   *)
(***************************************************************************)
ErrDial == "dial tcp: i/o timeout"
ErrVersion == "ssh: overflow reading version string"
ErrAuth == "ssh: unable to authenticate"
ErrTimeout == "read tcp: i/o timeout"

HandshakeFailed(err) == "ssh: handshake failed: " \o err

\* a transport not made yet: no read loop, nobody in requestInitialKeyChange
Unstarted(cfg, nPeer, nKex) ==
    /\ config = cfg
    /\ sessionID = NoSession
    /\ sentInitMsg = FALSE
    /\ writtenSinceKex = 0
    /\ readSinceKex = 0
    /\ writeError = "nil"
    /\ readError = "nil"
    /\ incoming = <<>>
    /\ incomingClosed = FALSE
    /\ mu = "free"
    /\ rl = [pc |-> "unstarted", p |-> NoPacket, err |-> "nil", firstKex |-> FALSE]
    /\ tasks = [tk \in Tasks |-> IdleTask]
    /\ hs = [pc |-> "unstarted", ret |-> "none"]
    /\ conn = [closed |-> FALSE, wbroken |-> FALSE]
    /\ peerLeft = nPeer
    /\ kexLeft = nKex
    /\ calls = 0
    /\ lastCall = NoCall
    /\ wire = <<>>
    /\ readLog = <<>>
    /\ delivered = <<>>
    /\ keyChanges = <<>>
    /\ kexOpen = "closed"

DialFrame == UNCHANGED <<nvars, wvars, cvars, gvars, svars, kvars, config, tvars, tasks,
                         calls, lastCall, peerLeft, kexLeft, hvars>>

\* a NewClientConn that leaves the connection open when the handshake fails
closeOnFailureNever(c, err) == c

\* NewClientConn, lines 76-79: c.Close() when clientHandshake failed
closeOnFailure(c, err) == IF err # "nil" THEN [c EXCEPT !.closed = TRUE] ELSE c

\* NewClientConn, lines 76-81: what it returns for the result of clientHandshake
NewClientConnReturn(err) ==
    IF err # "nil"
    THEN [conn |-> "nil", chans |-> "nil", reqs |-> "nil", err |-> HandshakeFailed(err)]
    ELSE [conn |-> "conn", chans |-> "incomingChannels", reqs |-> "incomingRequests",
          err |-> "nil"]

\* Dial, lines 232-235: the error of NewClientConn, or NewClient
DialReturn(nc) == IF nc.err # "nil" THEN nc.err ELSE "client"

\* clientHandshake has returned err: NewClientConn and then Dial return
Dial_Return(err) ==
    /\ conn' = closeOnFailure(conn, err)
    /\ dial' = [dial EXCEPT !.pc = "returned", !.nc = NewClientConnReturn(err),
                            !.ret = DialReturn(NewClientConnReturn(err))]

\* Dial, lines 222-231: net.DialTimeout, then SetDeadline if a Timeout is set
Dial_Connect(ok) ==
    /\ dial.pc = "connect"
    /\ dial' = IF ok
               THEN [dial EXCEPT !.pc = "versions",
                                 !.deadline = IF dial.Timeout # 0 THEN "armed" ELSE "none"]
               ELSE [dial EXCEPT !.pc = "returned", !.ret = ErrDial]
    /\ UNCHANGED <<conn, rl, hs>>
    /\ DialFrame

\* clientHandshake, lines 93-149: exchangeVersions, then newClientTransport
\* starts the read loop; lines 151-155: HelloOnly returns at once
Dial_ExchangeVersions(ok) ==
    /\ dial.pc = "versions"
    /\ IF ok /\ ~conn.closed /\ dial.deadline # "expired"
       THEN /\ rl' = [rl EXCEPT !.pc = "top"]
            /\ hs' = IF config.HelloOnly THEN [pc |-> "done", ret |-> "nil"]
                                         ELSE [pc |-> "start", ret |-> "none"]
            /\ dial' = [dial EXCEPT !.pc = "handshake"]
            /\ UNCHANGED conn
       ELSE /\ Dial_Return(ErrVersion)
            /\ UNCHANGED <<rl, hs>>
    /\ DialFrame

\* clientHandshake, lines 155-157: requestInitialKeyChange failed
Dial_KeyChangeFailed ==
    /\ dial.pc = "handshake"
    /\ hs.pc = "done"
    /\ hs.ret # "nil"
    /\ Dial_Return(hs.ret)
    /\ UNCHANGED <<rl, hs>>
    /\ DialFrame

\* clientHandshake, lines 151-153: nothing more under HelloOnly
Dial_HelloOnly ==
    /\ dial.pc = "handshake"
    /\ config.HelloOnly
    /\ Dial_Return("nil")
    /\ UNCHANGED <<rl, hs>>
    /\ DialFrame

\* clientHandshake, lines 159-162: clientAuthenticate
Dial_Authenticate(ok) ==
    /\ dial.pc = "handshake"
    /\ ~config.HelloOnly
    /\ hs.pc = "done"
    /\ hs.ret = "nil"
    /\ Dial_Return(IF ok /\ ~conn.closed /\ dial.deadline # "expired" THEN "nil" ELSE ErrAuth)
    /\ UNCHANGED <<rl, hs>>
    /\ DialFrame

\* time passes: the deadline set on the connection is reached
Dial_DeadlinePasses ==
    /\ dial.deadline = "armed"
    /\ dial' = [dial EXCEPT !.deadline = "expired"]
    /\ UNCHANGED <<conn, rl, hs>>
    /\ DialFrame

\* readOnePacket, lines 568-571: the read fails because the deadline passed
RL_ReadTimeout ==
    /\ rl.pc = "read"
    /\ dial.deadline = "expired"
    /\ rl' = [rl EXCEPT !.pc = "failed", !.err = ErrTimeout]
    /\ UNCHANGED <<conn, hs, dial>>
    /\ DialFrame

Timeouts == {0, 1}

DialPeerPackets == {Packet(msgOther, 1, 0)}

InitDial ==
    /\ \E cfg \in Configs : Unstarted(cfg, MaxDialPackets, 1)
    /\ NegotiationIdle /\ WindowIdle /\ ClientIdle /\ GlobalRequestsIdle /\ DefaultsIdle /\ KexEntryIdle
    /\ \E tmo \in Timeouts :
          dial = [pc |-> "connect", Timeout |-> tmo, deadline |-> "none",
                  nc |-> NoReturn, ret |-> "none"]

NextDial ==
    \/ \E ok \in BOOLEAN : Dial_Connect(ok)
    \/ \E ok \in BOOLEAN : Dial_ExchangeVersions(ok)
    \/ Dial_KeyChangeFailed
    \/ Dial_HelloOnly
    \/ \E ok \in BOOLEAN : Dial_Authenticate(ok)
    \/ Dial_DeadlinePasses
    \/ RL_ReadTimeout
    \/ ReadLoopNoGuess(DialPeerPackets, {"ok", "malformed", "noCommon"}, {1})
    \/ Handshake

SpecDial == InitDial /\ [][NextDial]_vars

\* NewClientConn has returned an error
NewClientConnFailed == dial.nc.err \notin {"none", "nil"}

\* the errors clientHandshake can return, by the step that failed
HandshakeErrors ==
    {ErrVersion, ErrWrite, ErrParse, ErrNoCommon, ErrKex, ErrHostKeyParse, ErrHostKeySig,
     ErrHostKeyCallback, ErrUnexpected, ErrEOF, ErrTimeout, ErrAuth}

\* C23: whichever step of the client handshake failed (version exchange,
\* writing KEXINIT, the peer's KEXINIT malformed or without a common
\* algorithm, the key exchange, the host key, a packet other than NEWKEYS,
\* authentication), the connection is closed when NewClientConn has returned
\* the error, and it has returned no connection and no channels.
C23_FailedHandshakeClosesConn ==
    NewClientConnFailed =>
        /\ conn.closed
        /\ dial.nc.conn = "nil"
        /\ dial.nc.chans = "nil"
        /\ dial.nc.reqs = "nil"
        /\ \E e \in HandshakeErrors : dial.nc.err = HandshakeFailed(e)
        /\ dial.ret = dial.nc.err

\* C23 witness: the key exchange completed and authentication failed, so
\* that nothing but NewClientConn closes the connection
C23_Witness ==
    /\ dial.nc.err = HandshakeFailed(ErrAuth)
    /\ Len(keyChanges) = 1
    /\ rl.pc \notin {"failed", "closing", "done"}
    /\ conn.closed
    /\ dial.nc.conn = "nil"

\* Dial has returned a Client for a configuration with a Timeout
DialedWithTimeout == dial.pc = "returned" /\ dial.ret = "client" /\ dial.Timeout # 0

\* C25: once Dial has returned a Client, no deadline derived from
\* Config.Timeout is armed on the connection, and no read of the connection
\* fails because that deadline passed.
C25_NoDeadlineAfterDial ==
    DialedWithTimeout => (dial.deadline = "none" /\ rl.err # ErrTimeout)

(***************************************************************************)
(* The end of a key exchange: keys prepared, NEWKEYS written, NEWKEYS read.*)
(***************************************************************************)
NewKeysWritten == {i \in DOMAIN wire : wire[i].type = msgNewKeys}

\* the read loop is in the read of enterKeyExchangeLocked, line 847
AwaitingNewKeys == rl.pc = "kexNewKeys"

\* this step takes a packet from the connection in that read
NewKeysRead == AwaitingNewKeys /\ Len(readLog') = Len(readLog) + 1

\* C24: inside a key exchange the keys are prepared, then NEWKEYS is
\* written, then the next packet is read: when that read starts, the last
\* packet written is this side's NEWKEYS and every NEWKEYS written has its
\* prepareKeyChange.  The exchange succeeds exactly when the packet read is
\* NEWKEYS; any other type ends it with the unexpected-message error and
\* closes the connection, and from then on no packet of a caller is
\* written.
C24_PrepareWriteReadNewKeys ==
    [][/\ Cardinality(NewKeysWritten) <= Len(keyChanges)
       /\ AwaitingNewKeys =>
             /\ wire # <<>>
             /\ wire[Len(wire)].src = "enterKeyExchangeLocked"
             /\ wire[Len(wire)].type = msgNewKeys
             /\ Cardinality(NewKeysWritten) = Len(keyChanges)
       /\ NewKeysRead =>
             /\ UNCHANGED <<wire, keyChanges, sessionID>>
             /\ readLog'[Len(readLog')].inKex
             /\ (readLog'[rl.p.id].kex = "ok") = (readLog'[Len(readLog')].type = msgNewKeys)
             /\ readLog'[Len(readLog')].type # msgNewKeys =>
                   /\ rl'.pc = "failed"
                   /\ rl'.err = ErrUnexpected
                   /\ conn'.closed
                   /\ writeError' = ErrUnexpected
       /\ writeError = ErrUnexpected =>
             /\ conn.closed
             /\ writeError' = ErrUnexpected
             /\ \A i \in DOMAIN wire' : i > Len(wire) => wire'[i].src # "writePacket"]_vars

\* C24 witness: a caller had written a packet, an exchange read a packet
\* other than NEWKEYS after this side's NEWKEYS, and a later writePacket
\* returned the error
C24_Witness ==
    /\ writeError = ErrUnexpected
    /\ \E i \in DOMAIN wire : wire[i].src = "writePacket"
    /\ wire[Len(wire)].type = msgNewKeys
    /\ readLog[Len(readLog)].inKex
    /\ readLog[Len(readLog)].type = msgOther
    /\ lastCall.op = "writePacket"
    /\ lastCall.ret = ErrUnexpected

(***************************************************************************)
(* handleGlobalRequests: the goroutine NewClient starts on the stream of   *)
(* global requests.  greq.queue holds the requests the mux has delivered   *)
(* and the goroutine has not received yet, greq.replies the replies sent.  *)
(***************************************************************************)
GlobalFrame == UNCHANGED <<htvars, nvars, wvars, cvars, dvars, svars, kvars>>

\* Request.Reply: the reply sent to the peer for request r
Reply(r, ok, payload) == [id |-> r, ok |-> ok, payload |-> payload]

\* a handler that accepts every request
replyToOk(r) == Reply(r, TRUE, "nil")

\* handleGlobalRequests, line 190: r.Reply(false, nil)
replyTo(r) == Reply(r, FALSE, "nil")

\* the mux delivers the next global request of the peer
GR_Arrive ==
    /\ greq.left > 0
    /\ ~greq.closed
    /\ greq' = [greq EXCEPT !.queue = Append(@, greq.next), !.next = @ + 1,
                            !.left = @ - 1]
    /\ GlobalFrame

\* the mux closes the stream; what it delivered before can still be received
GR_CloseStream ==
    /\ ~greq.closed
    /\ greq' = [greq EXCEPT !.closed = TRUE]
    /\ GlobalFrame

\* handleGlobalRequests, line 187: the range takes a request
GR_Receive ==
    /\ greq.pc = "range"
    /\ greq.queue # <<>>
    /\ greq' = [greq EXCEPT !.queue = Tail(@), !.r = Head(greq.queue), !.pc = "reply"]
    /\ GlobalFrame

\* handleGlobalRequests, lines 188-190
GR_Reply ==
    /\ greq.pc = "reply"
    /\ greq' = [greq EXCEPT !.replies = Append(@, replyTo(greq.r)), !.pc = "range"]
    /\ GlobalFrame

\* handleGlobalRequests, lines 187 and 192: the range ends on a closed stream
GR_Return ==
    /\ greq.pc = "range"
    /\ greq.queue = <<>>
    /\ greq.closed
    /\ greq' = [greq EXCEPT !.pc = "done"]
    /\ GlobalFrame

InitGlobal ==
    /\ TransportIdle /\ DefaultsIdle /\ KexEntryIdle /\ NegotiationIdle /\ WindowIdle /\ ClientIdle
    /\ greq = incomingRequests(MaxRequests, FALSE, "range")

NextGlobal == GR_Arrive \/ GR_CloseStream \/ GR_Receive \/ GR_Reply \/ GR_Return

SpecGlobal == InitGlobal /\ [][NextGlobal]_vars

\* the requests the goroutine has taken from the stream
Received == (greq.next - 1) - Len(greq.queue)

\* C26: the replies sent are negative, one for each global request taken
\* from the stream and in the order of arrival; only the request being
\* handled is still unanswered; and the goroutine has stopped only if the
\* stream is closed and every request delivered has its reply.
C26_NegativeReplyToEach ==
    /\ \A i \in DOMAIN greq.replies :
          /\ greq.replies[i].id = i
          /\ ~greq.replies[i].ok
          /\ greq.replies[i].payload = "nil"
    /\ Len(greq.replies) = Received - (IF greq.pc = "reply" THEN 1 ELSE 0)
    /\ greq.pc = "reply" => greq.r = Received
    /\ greq.pc = "done" =>
          /\ greq.closed
          /\ greq.queue = <<>>
          /\ Len(greq.replies) = greq.next - 1

\* C26 witness: requests were still queued when the stream was closed, and
\* the goroutine answered them all before it stopped
C26_Witness ==
    /\ greq.pc = "done"
    /\ Len(greq.replies) >= 3
    /\ greq.left > 0

(***************************************************************************)
(* Config.SetDefaults on the rekey threshold, a uint64.                    *)
(***************************************************************************)
U64(a, b, c, d) == <<a, b, c, d>>

\* x < y on uint64
lt64(x, y) ==
    \E i \in 1..4 : x[i] < y[i] /\ \A j \in 1..(i - 1) : x[j] = y[j]

\* 1 << 30 and minRekeyThreshold as uint64
defaultRekeyThreshold64 ==
    U64(0, 0, defaultRekeyThreshold \div Half, defaultRekeyThreshold % Half)
minRekeyThreshold64 == U64(0, 0, 0, minRekeyThreshold)

\* a SetDefaults without the floor
SetDefaultsNoFloor(rt) == IF rt = Zero64 THEN defaultRekeyThreshold64 ELSE rt

\* SetDefaults, lines 266-272: c.RekeyThreshold afterwards
SetDefaults(rt) ==
    LET rt1 == IF rt = Zero64 THEN defaultRekeyThreshold64 ELSE rt
    IN IF lt64(rt1, minRekeyThreshold64) THEN minRekeyThreshold64 ELSE rt1

DefaultsFrame == UNCHANGED <<htvars, nvars, wvars, cvars, dvars, gvars, kvars>>

\* NewClientConn, lines 70-71: fullConf.SetDefaults()
Config_SetDefaults ==
    /\ defaults.pc = "raw"
    /\ defaults' = [defaults EXCEPT !.pc = "set", !.out = SetDefaults(defaults.in)]
    /\ DefaultsFrame

\* the limbs the thresholds are made of: around 0, around 256, the largest
Limbs == {0, 1, 255, 256, 257, Half - 1}
Thresholds == {U64(a, b, c, d) : a, b \in {0, 1, Half - 1}, c \in {0, 1, 16384}, d \in Limbs}

InitDefaults ==
    /\ TransportIdle /\ GlobalRequestsIdle /\ KexEntryIdle /\ NegotiationIdle /\ WindowIdle /\ ClientIdle
    /\ \E rt \in Thresholds : defaults = [pc |-> "raw", in |-> rt, out |-> Zero64]

NextDefaults == Config_SetDefaults

SpecDefaults == InitDefaults /\ [][NextDefaults]_vars

\* a uint64 of the model has a value below 256
Below256(rt) == rt[1] = 0 /\ rt[2] = 0 /\ rt[3] = 0 /\ rt[4] < 256

\* C27: after SetDefaults the rekey threshold is 2^30 if it was 0, 256 if
\* it was between 1 and 255, and what it was otherwise; it is never below
\* 256.
C27_ThresholdDefaults ==
    defaults.pc = "set" =>
        /\ defaults.in = Zero64 => defaults.out = U64(0, 0, 16384, 0)
        /\ (Below256(defaults.in) /\ defaults.in # Zero64) => defaults.out = U64(0, 0, 0, 256)
        /\ ~Below256(defaults.in) => defaults.out = defaults.in
        /\ ~Below256(defaults.out)

\* C27 witness: a threshold of 255 has become 256
C27_Witness ==
    /\ defaults.pc = "set"
    /\ defaults.in = U64(0, 0, 0, 255)
    /\ defaults.out = U64(0, 0, 0, 256)

(***************************************************************************)
(* KEXINITs of this side on the wire.                                      *)
(***************************************************************************)
KexInitsWritten == {i \in DOMAIN wire : wire[i].type = msgKexInit}

\* a key exchange got as far as this side's NEWKEYS between wire[i] and wire[j]
ExchangeBetween(i, j) == \E k \in DOMAIN wire : i < k /\ k < j /\ wire[k].type = msgNewKeys

InitTriggers == \E cfg \in Configs :
                    /\ newHandshakeTransport(cfg, MaxReadPackets, MaxReadPackets, MaxCalls)
                    /\ Elsewhere

NextTriggers ==
    \/ ReadLoopNoGuess(LivePeerPackets, {"ok", "noCommon"}, {1})
    \/ Handshake
    \/ \E tk \in Tasks, p \in LiveCallerPackets, ok \in BOOLEAN : WritePacket(tk, p, ok)
    \/ \E tk \in Tasks : Resume(tk)

SpecTriggers == InitTriggers /\ [][NextTriggers]_vars

\* this step ends readOnePacket's handling of a KEXINIT of the peer
PeerKexInitHandled ==
    \E i \in DOMAIN readLog' :
        /\ readLog'[i].type = msgKexInit
        /\ readLog'[i].kex # "pending"
        /\ i \in DOMAIN readLog => readLog[i].kex = "pending"

LastHandled ==
    LET H == {i \in DOMAIN readLog :
                 readLog[i].type = msgKexInit /\ readLog[i].kex \in {"ok", "skipped"}}
    IN IF H = {} THEN 0 ELSE CHOOSE i \in H : \A j \in H : j <= i

\* the bytes of the packets read since, those read inside a key exchange
\* left out
BytesReadSinceKex ==
    LET RECURSIVE sum(_)
        sum(i) == IF i > Len(readLog) THEN 0
                  ELSE (IF readLog[i].inKex THEN 0 ELSE readLog[i].len) + sum(i + 1)
    IN sum(LastHandled + 1)

\* this step ends a key exchange that succeeded: t.mu is released
KexCompleted ==
    /\ rl.pc # "kexDone"
    /\ rl'.pc = "kexDone"
    /\ readLog'[rl'.p.id].kex = "ok"

\* this step forwards the packet of a writer that a key exchange had blocked
BlockedWriterForwards ==
    /\ \E tk \in Tasks : tasks[tk].pc = "waiting" /\ tasks'[tk].pc = "idle"
    /\ Len(wire') = Len(wire) + 1
    /\ wire'[Len(wire')].src = "writePacket"
    /\ wire'[Len(wire')].kexd = "ok"

LastExchanged ==
    LET H == {i \in DOMAIN readLog :
                 readLog[i].type = msgKexInit /\ readLog[i].kex = "ok"}
    IN IF H = {} THEN 0 ELSE CHOOSE i \in H : \A j \in H : j <= i

\* the bytes of the packets read since, counted up to MaxBytes, those read
\* inside a key exchange left out
BytesReadSinceExchange ==
    LET RECURSIVE sum(_)
        sum(i) == IF i > Len(readLog) THEN 0
                  ELSE LET a == IF readLog[i].inKex THEN 0 ELSE readLog[i].len
                           b == sum(i + 1)
                       IN IF a > MaxBytes - b THEN MaxBytes ELSE a + b
    IN sum(LastExchanged + 1)

\* this step is the check of readOnePacket that goes on to the read
ChecksThenReads == rl.pc = "top" /\ rl'.pc = "read"

\* this step is the check of readOnePacket that ends the read loop
CheckFails == rl.pc = "top" /\ rl'.pc = "failed"

\* this step writes a KEXINIT of this side, and nothing else
WritesKexInit ==
    /\ Len(wire') = Len(wire) + 1
    /\ wire' = Append(wire, wire'[Len(wire')])
    /\ wire'[Len(wire')].type = msgKexInit
    /\ wire'[Len(wire')].src = "sendKexInitLocked"
    /\ sentInitMsg'

\* the check of readOnePacket with n bytes counted: a KEXINIT is written
\* exactly when n is over the threshold and none is outstanding, and a write
\* that fails ends the read loop with the write's error
ThresholdCheck(n) ==
    /\ ChecksThenReads =>
          IF n > config.RekeyThreshold /\ ~sentInitMsg
          THEN WritesKexInit
          ELSE wire' = wire /\ sentInitMsg' = sentInitMsg
    /\ CheckFails =>
          /\ n > config.RekeyThreshold
          /\ ~sentInitMsg
          /\ wire' = wire
          /\ rl'.err = ErrWrite
    /\ (rl.pc = "failed" /\ rl'.pc # "failed") => readError' = rl.err

KexEntryFrame == UNCHANGED <<htvars, nvars, wvars, cvars, dvars, gvars, svars>>

\* the read of the guessed packet failed
ErrGuessRead == Errorf(<<"read: EOF">>)

\* kexAlgoMap has no entry for the agreed name
ErrUnknownKex(name) == Errorf(<<"ssh: unexpected key exchange algorithm ", name>>)

\* parseError(msgKexInit)
ErrKexInitParse == Errorf(<<"ssh: parse error in message type 20">>)

\* the KEXINIT of the side that wrote its KEXINIT first is the client's
rolesByFirstSender(hostKeys, my, other) ==
    IF kx.sentFirst THEN [client |-> my, server |-> other]
    ELSE [client |-> other, server |-> my]

\* lines 769-784: with no host keys this side is the client, and its KEXINIT
\* the client's; with host keys the peer's is
roles(hostKeys, my, other) ==
    IF hostKeys = 0 THEN [client |-> my, server |-> other]
    ELSE [client |-> other, server |-> my]

\* the peer's first names against what was agreed
guessWrongAgainstAgreed(follows, clientInit, serverInit, otherInit, algs) ==
    follows /\ ~(otherInit.KexAlgos[1] = algs.Kex
                 /\ otherInit.ServerHostKeyAlgos[1] = algs.HostKey)

\* line 804: the flag is set and the two sides' first names differ
guessWrong(follows, clientInit, serverInit, otherInit, algs) ==
    follows /\ (clientInit.KexAlgos[1] # serverInit.KexAlgos[1]
                \/ clientInit.ServerHostKeyAlgos[1] # serverInit.ServerHostKeyAlgos[1])

\* sendKexInit, lines 639-650: this side writes its KEXINIT before the
\* peer's has arrived
KX_SendKexInit ==
    /\ kx.pc = "idle"
    /\ kx.sent = NoPayload
    /\ kx' = [kx EXCEPT !.sent = kx.mine, !.sentFirst = TRUE]
    /\ KexEntryFrame

\* enterKeyExchangeLocked, lines 750-789: the peer's KEXINIT has arrived
KX_Enter(parses) ==
    /\ kx.pc = "idle"
    /\ LET my == IF kx.sent # NoPayload THEN kx.sent ELSE kx.mine
           r == roles(kx.hostKeys, my, kx.other)
           a == findAgreedAlgorithms(r.client.msg, r.server.msg)
       IN IF ~parses
          THEN kx' = [kx EXCEPT !.pc = "failed", !.sent = my, !.err = ErrKexInitParse]
          ELSE kx' = [kx EXCEPT !.pc = IF a.err.isNil THEN "agreed" ELSE "failed",
                                !.sent = my,
                                !.magics = [clientKexInit |-> r.client,
                                            serverKexInit |-> r.server],
                                !.clientInit = r.client.msg,
                                !.serverInit = r.server.msg,
                                !.algs = a.algs,
                                !.err = a.err]
    /\ KexEntryFrame

\* enterKeyExchangeLocked, lines 804-810: the guessed packet
KX_Guess(ok) ==
    /\ kx.pc = "agreed"
    /\ IF guessWrong(kx.other.FirstKexFollows, kx.clientInit, kx.serverInit,
                     kx.other.msg, kx.algs)
       THEN IF ok THEN kx' = [kx EXCEPT !.pc = "kex", !.discarded = @ + 1]
            ELSE kx' = [kx EXCEPT !.pc = "failed", !.err = ErrGuessRead]
       ELSE kx' = [kx EXCEPT !.pc = "kex"]
    /\ KexEntryFrame

\* enterKeyExchangeLocked, lines 812-828: the algorithm is looked up and run
\* with the agreed algorithms and the magics
KX_Run(known) ==
    /\ kx.pc = "kex"
    /\ IF known THEN kx' = [kx EXCEPT !.pc = "done", !.ran = TRUE]
       ELSE kx' = [kx EXCEPT !.pc = "failed", !.err = ErrUnknownKex(kx.algs.Kex)]
    /\ KexEntryFrame

\* what a side may offer
KexOffers == {<<"curve25519-sha256", "diffie-hellman-group14-sha1">>,
              <<"diffie-hellman-group14-sha1", "curve25519-sha256">>,
              <<"diffie-hellman-group14-sha1">>, <<"ecdh-sha2-nistp256">>}
HostKeyOffers == {<<"ssh-ed25519", "ssh-rsa">>, <<"ssh-rsa", "ssh-ed25519">>, <<"ssh-rsa">>}

\* a KexInitMsg with these key-exchange and host-key lists
KexInitMsg(kexAlgos, hostKeyAlgos) ==
    [fd \in KexInitFields |->
        IF fd = "KexAlgos" THEN kexAlgos
        ELSE IF fd = "ServerHostKeyAlgos" THEN hostKeyAlgos
        ELSE IF fd \in {"CiphersClientServer", "CiphersServerClient"} THEN <<"aes128-ctr">>
        ELSE IF fd \in {"MACsClientServer", "MACsServerClient"} THEN <<"hmac-sha2-256">>
        ELSE <<"none">>]

InitKexEntry ==
    /\ TransportIdle /\ GlobalRequestsIdle /\ DefaultsIdle /\ NegotiationIdle
    /\ WindowIdle /\ ClientIdle
    /\ \E hk \in {0, 1}, mk \in KexOffers, mh \in HostKeyOffers,
          ok \in KexOffers, oh \in HostKeyOffers, follows \in BOOLEAN :
           kx = [NoKexEntry EXCEPT !.pc = "idle", !.hostKeys = hk,
                                   !.mine = KexPayload("mine", KexInitMsg(mk, mh), FALSE),
                                   !.other = KexPayload("peer", KexInitMsg(ok, oh), follows)]

NextKexEntry ==
    \/ KX_SendKexInit
    \/ \E parses \in BOOLEAN : KX_Enter(parses)
    \/ \E ok \in BOOLEAN : KX_Guess(ok)
    \/ \E known \in BOOLEAN : KX_Run(known)

SpecKexEntry == InitKexEntry /\ [][NextKexEntry]_vars

\* C31: once the algorithms are agreed, a transport without host keys has
\* this side's KEXINIT as the client's in the magics and in the negotiation,
\* a transport with host keys the peer's, whichever side wrote its KEXINIT
\* first; the agreed algorithms are those of the two messages in that order.
C31_RolesByHostKeys ==
    kx.pc \in {"agreed", "kex", "done"} =>
        /\ kx.sent = kx.mine
        /\ kx.hostKeys = 0 =>
              /\ kx.magics = [clientKexInit |-> kx.mine, serverKexInit |-> kx.other]
              /\ kx.clientInit = kx.mine.msg /\ kx.serverInit = kx.other.msg
              /\ kx.algs = findAgreedAlgorithms(kx.mine.msg, kx.other.msg).algs
        /\ kx.hostKeys > 0 =>
              /\ kx.magics = [clientKexInit |-> kx.other, serverKexInit |-> kx.mine]
              /\ kx.clientInit = kx.other.msg /\ kx.serverInit = kx.mine.msg
              /\ kx.algs = findAgreedAlgorithms(kx.other.msg, kx.mine.msg).algs

\* C31 witness: a client transport whose peer wrote its KEXINIT first, the
\* two sides preferring different key-exchange algorithms, has run the
\* algorithm this side prefers.
C31_Witness ==
    /\ kx.pc = "done"
    /\ kx.hostKeys = 0
    /\ ~kx.sentFirst
    /\ kx.mine.msg.KexAlgos[1] # kx.other.msg.KexAlgos[1]
    /\ kx.algs.Kex = kx.mine.msg.KexAlgos[1]
    /\ kx.magics.clientKexInit.cookie = "mine"

\* the key exchange got past the guessed packet
PastGuess == kx.pc \in {"kex", "done"} \/ (kx.pc = "failed" /\ kx.err = ErrUnknownKex(kx.algs.Kex))

\* the peer's KEXINIT has the flag set and the first key-exchange names or
\* the first host-key names of the two sides differ
PreferencesDiffer ==
    /\ kx.other.FirstKexFollows
    /\ \/ kx.mine.msg.KexAlgos[1] # kx.other.msg.KexAlgos[1]
       \/ kx.mine.msg.ServerHostKeyAlgos[1] # kx.other.msg.ServerHostKeyAlgos[1]

\* C32 as stated: one packet is thrown away exactly when the flag is set and
\* the peer's first key-exchange and host-key names are not both the agreed
\* ones.
C32_AsStated ==
    PastGuess =>
        (kx.discarded = 1 <=>
            (kx.other.FirstKexFollows
             /\ ~(kx.other.msg.KexAlgos[1] = kx.algs.Kex
                  /\ kx.other.msg.ServerHostKeyAlgos[1] = kx.algs.HostKey)))

\* C32 as amended: one packet is thrown away before the algorithm runs
\* exactly when the flag is set and the two sides' first-listed key-exchange
\* algorithms or first-listed host-key algorithms differ; otherwise none is,
\* and never more than one; when the read of that packet fails the key
\* exchange ends with the error.
C32_GuessDiscarded ==
    /\ kx.discarded \in {0, 1}
    /\ PastGuess => (kx.discarded = 1 <=> PreferencesDiffer)
    /\ kx.ran => PastGuess
    /\ (kx.pc = "failed" /\ kx.err = ErrGuessRead) => (PreferencesDiffer /\ kx.discarded = 0)

\* C32 witness: the peer guessed the algorithms that were agreed, its first
\* names are not this side's first names, and its packet was thrown away
\* before the algorithm ran.
C32_Witness ==
    /\ kx.pc = "done"
    /\ kx.other.FirstKexFollows
    /\ kx.other.msg.KexAlgos[1] = kx.algs.Kex
    /\ kx.other.msg.ServerHostKeyAlgos[1] = kx.algs.HostKey
    /\ kx.mine.msg.KexAlgos[1] # kx.other.msg.KexAlgos[1]
    /\ kx.discarded = 1

(***************************************************************************)
(* The client with two channel types: the peer opens FullOpens channels of *)
(* one type and then one of the other.  The dispatcher's steps are         *)
(* scheduled fairly, its receive from the stream included; the handlers    *)
(* may or may not drain their queues.                                      *)
(***************************************************************************)
\* for ch := range in, the peer's channel-opens in their order
Dispatch_ReceiveNext ==
    IF in.next <= FullOpens THEN Dispatch_Receive("custom-type")
    ELSE Dispatch_Receive("session")

InitClientTwo ==
    /\ TransportIdle /\ GlobalRequestsIdle /\ DefaultsIdle /\ KexEntryIdle
    /\ NegotiationIdle /\ WindowIdle
    /\ NewClient(FullOpens + 1, FullHandleCalls)

NextClientTwo ==
    \/ \E ty \in FullTypes : HandleChannelOpen(ty)
    \/ Dispatch_ReceiveNext
    \/ DispatcherRuns
    \/ In_Close
    \/ \E q \in 1..FullHandleCalls : Handler_Receive(q)

SpecClientTwo ==
    /\ InitClientTwo
    /\ [][NextClientTwo]_vars
    /\ WF_vars(DispatcherRuns)
    /\ WF_vars(Dispatch_ReceiveNext)

\* the channel-open of the second type is the next of the stream, or the
\* dispatcher has it in hand
SecondTypePending ==
    \/ in.next = FullOpens + 1 /\ in.left = 1
    \/ in.next = FullOpens + 2 /\ dispatcher.pc \in {"lookup", "send", "reject"}

\* the dispatcher has put it on a queue or rejected it
SecondTypeSettled ==
    /\ in.next = FullOpens + 2
    /\ dispatcher.pc \in {"range", "done"}

\* C33: a channel-open of one type that comes after the channel-opens of
\* another type is forwarded to its queue or rejected, also when the queue
\* of the other type is full and not drained, as long as the stream of
\* channel-opens stays open.
C33_TypesIndependent ==
    SecondTypePending ~> (SecondTypeSettled \/ in.closed)

(***************************************************************************)
(* What requestInitialKeyChange has seen when it returns.                  *)
(***************************************************************************)
\* requestInitialKeyChange was called and has returned
InitialKeyChangeReturned == ~config.HelloOnly /\ hs.pc = "done"

\* the first key exchange is complete: session ID set, keys prepared,
\* NEWKEYS written and NEWKEYS read inside the exchange
FirstKexComplete ==
    /\ sessionID # NoSession
    /\ keyChanges # <<>>
    /\ \E i \in DOMAIN wire :
          wire[i].type = msgNewKeys /\ wire[i].src = "enterKeyExchangeLocked"
    /\ \E i \in DOMAIN readLog : readLog[i].type = msgNewKeys /\ readLog[i].inKex

\* the packet requestInitialKeyChange took from the queue is the marker
\* readOnePacket made for a KEXINIT after a first key exchange
TookMarker ==
    /\ delivered # <<>>
    /\ delivered[1].type = msgNewKeys
    /\ readLog[delivered[1].id].type = msgKexInit

\* C34: when requestInitialKeyChange returns nil the first key exchange is
\* complete; when the first packet it took from the queue is not the newkeys
\* marker it returns the unexpected-message error, and when it found the
\* queue closed the read error.
C34_InitialKeyChange ==
    InitialKeyChangeReturned =>
        /\ hs.ret = "nil" => FirstKexComplete
        /\ (delivered # <<>> /\ ~TookMarker) => hs.ret = ErrUnexpected
        /\ (delivered = <<>> /\ hs.ret # ErrWrite) => (incomingClosed /\ hs.ret = readError)

\* the same, for a connection that hands up no NEWKEYS outside a key exchange
C34_WithoutStrayNewKeys ==
    (\A i \in DOMAIN readLog : readLog[i].type = msgNewKeys => readLog[i].inKex)
        => C34_InitialKeyChange

(***************************************************************************)
(* The bytes forwarded between two key exchanges.                          *)
(***************************************************************************)
\* this step forwards a caller's packet to the connection
CallerPacketForwarded ==
    /\ Len(wire') = Len(wire) + 1
    /\ wire'[Len(wire')].src = "writePacket"

\* C35: with HelloOnly off, no caller packet is forwarded to the connection
\* while the bytes written since the last key exchange exceed the rekey
\* threshold.
C35_BoundedUnderOneKey ==
    [][(~config.HelloOnly /\ CallerPacketForwarded)
           => writtenSinceKex <= config.RekeyThreshold]_vars

\* the same of the calls that were not blocked: a writePacket call that
\* forwards its packet without having waited found the counter at or below
\* the threshold, also when the KEXINIT could not be written
C35_UnblockedCalls ==
    [][(CallerPacketForwarded /\ \A tk \in Tasks : tasks[tk].pc # "waiting" \/ tasks'[tk].pc # "idle")
           => writtenSinceKex <= config.RekeyThreshold]_vars

(***************************************************************************)
(* A writePacket call begun after a readPacket call returned the read      *)
(* error.                                                                  *)
(***************************************************************************)
\* the call that returned last is a readPacket that found the queue closed
ReadErrorReturned == lastCall.op = "readPacket" /\ lastCall.ret # "nil"

\* this step is the start of a writePacket call
WritePacketStarts == calls' = calls - 1

\* C36: a writePacket call that starts after a readPacket call has returned
\* the read error writes nothing to the connection and returns an error, at
\* once or when it is woken.
C36_NoWriteAfterReadError ==
    [][(ReadErrorReturned /\ WritePacketStarts) =>
          /\ wire' = wire
          /\ \/ \E tk \in Tasks : tasks[tk].pc = "idle" /\ tasks'[tk].pc = "waiting"
             \/ (lastCall'.op = "writePacket" /\ lastCall'.ret # "nil")]_vars

\* the same of the calls that start once the read loop has recorded the
\* write error and found the counter at or below the threshold
C36_AfterShutdown ==
    [][(ReadErrorReturned /\ WritePacketStarts /\ rl.pc = "done"
        /\ ~overThreshold(writtenSinceKex)) =>
          /\ wire' = wire
          /\ lastCall'.op = "writePacket"
          /\ lastCall'.ret = readError]_vars

(***************************************************************************)
(* The accounts of the window: every step of add, reserve and close.       *)
(***************************************************************************)
\* a + b is below 2^32
FitsUint32(a, b) == a[1] + b[1] + ((a[2] + b[2]) \div Half) < Half

\* the reserve calls that have entered and not left their wait
InReserve == {r \in Reservers : reservers[r].pc = "waiting"}

\* this step is a reserve call's return
ReserveReturned ==
    \/ \E r \in Reservers : ReserveReturns(r)
    \/ wcalls' = wcalls - 1 /\ wlast'.op = "reserve" /\ w'.writeWaiters = w.writeWaiters

\* this step is an add that was accepted and is not of 0
AddAccepted == AddCalled /\ wlast'.ok /\ wlast'.arg # Zero32

\* C37: the credit is a uint32 that no step wraps around: an accepted add
\* raises it by exactly its amount, the sum staying below 2^32; a reserve
\* that returns lowers it by exactly what it grants, which is never more
\* than the credit; no other step changes it; writeWaiters is the number of
\* reserve calls in their wait, hence 0 when no reserve is in progress.
C37_WindowAccounts ==
    /\ [](/\ w.win[1] \in 0..(Half - 1) /\ w.win[2] \in 0..(Half - 1)
          /\ w.writeWaiters = Cardinality(InReserve)
          /\ w.writeWaiters >= 0)
    /\ [][/\ AddAccepted =>
               (FitsUint32(w.win, wlast'.arg) /\ w'.win = add32(w.win, wlast'.arg))
          /\ ReserveReturned =>
               /\ ~lt32(wlast'.before.win, wlast'.ret)
               /\ FitsUint32(w'.win, wlast'.ret)
               /\ add32(w'.win, wlast'.ret) = wlast'.before.win
               /\ wlast'.before.win = w.win
          /\ (~AddAccepted /\ ~ReserveReturned) => w'.win = w.win]_vars

\* C37 witness: an add was refused because the sum would have passed
\* 2^32 - 1, while a reserve call that an earlier add has woken is still in
\* its wait.
C37_Witness ==
    /\ wlast.op = "add" /\ ~wlast.ok
    /\ w.win # Zero32
    /\ w.writeWaiters = 1
    /\ \E r \in Reservers : reservers[r].pc = "waiting" /\ reservers[r].woken

(***************************************************************************)
(* Closing of the handler queues.                                          *)
(***************************************************************************)
\* the queues of the registry
RegisteredQueues == {channelHandlers.byType[ty] : ty \in ChannelTypes} \ {NoQueue}

\* the step closes the open queue q
QueueClosedInStep(q) == ~chanQueues[q].closed /\ chanQueues'[q].closed

\* the dispatcher leaves its loop and runs the code after it
TeardownStep == dispatcher.pc = "range" /\ dispatcher'.pc = "done"

\* C38: the dispatcher never sends on a closed queue and no queue is closed
\* twice: a queue is closed only by the dispatcher's code after its loop,
\* which runs once, finds every registered queue open and distinct from the
\* others, and closes it; a queue made by HandleChannelOpen is registered
\* and closed by that code, or is the closed queue made after it, so that
\* with the dispatcher done every queue is closed.
C38_QueuesClosedOnce ==
    /\ [](/\ dispatcher.pc = "send" =>
                 /\ dispatcher.handler \in 1..Len(chanQueues)
                 /\ ~chanQueues[dispatcher.handler].closed
          /\ \A s, t \in ChannelTypes :
                 (s # t /\ channelHandlers.byType[s] # NoQueue) =>
                     channelHandlers.byType[s] # channelHandlers.byType[t]
          /\ channelHandlers.isNil <=> dispatcher.pc = "done"
          /\ \A q \in 1..Len(chanQueues) :
                 chanQueues[q].closed <=> dispatcher.pc = "done")
    /\ [][(\E q \in 1..Len(chanQueues) : QueueClosedInStep(q)) =>
              (TeardownStep /\ in.closed)]_vars
    /\ [][TeardownStep =>
              /\ \A q \in RegisteredQueues : QueueClosedInStep(q)
              /\ \A q \in 1..Len(chanQueues) : q \in RegisteredQueues
              /\ chanQueues'
                   = [q \in 1..Len(chanQueues) |-> [chanQueues[q] EXCEPT !.closed = TRUE]]]_vars
    /\ [][dispatcher.pc = "done" =>
              /\ dispatcher' = dispatcher
              /\ \A q \in 1..Len(chanQueues) : chanQueues'[q] = chanQueues[q]]_vars

\* two queues were registered and closed by the dispatcher, one of them with
\* a channel-open on it, and a third call got the closed queue
C38_Witness ==
    /\ dispatcher.pc = "done"
    /\ Len(hcoLog) = 3
    /\ hcoLog[1].live /\ hcoLog[2].live /\ ~hcoLog[3].live
    /\ hcoLog[1].ret = 1 /\ hcoLog[2].ret = 2 /\ hcoLog[3].ret = 3
    /\ chanQueues[1].items # <<>>
    /\ \A q \in 1..3 : chanQueues[q].closed

(***************************************************************************)
(* NewClient: the goroutine of handleChannelOpens is started before        *)
(* NewClient calls HandleChannelOpen("forwarded-tcpip"), whose result is   *)
(* the argument of the last go statement.  Other calls of                  *)
(* HandleChannelOpen come from the user of the returned client.            *)
(***************************************************************************)
\* conn.HandleChannelOpen("forwarded-tcpip"), evaluated by NewClient
NewClient_HandleForwards ==
    /\ hcoLog = <<>>
    /\ HandleChannelOpen("forwarded-tcpip")

\* a call by the user of the client NewClient has returned
User_HandleChannelOpen(ty) ==
    /\ hcoLog # <<>>
    /\ HandleChannelOpen(ty)

InitNewClient ==
    /\ TransportIdle /\ GlobalRequestsIdle /\ DefaultsIdle /\ KexEntryIdle /\ NegotiationIdle /\ WindowIdle
    /\ NewClient(MaxOpens, MaxHandleCalls)

NextNewClient ==
    \/ NewClient_HandleForwards
    \/ \E ty \in ChannelTypes : User_HandleChannelOpen(ty)
    \/ \E ty \in ChannelTypes : Dispatch_Receive(ty)
    \/ Dispatch_Lookup
    \/ Dispatch_Send
    \/ Dispatch_Reject
    \/ In_Close
    \/ Dispatch_Teardown

SpecNewClient == InitNewClient /\ [][NextNewClient]_vars

\* C39: no forwarded-tcpip channel-open is rejected, whatever the order of
\* the goroutines NewClient starts.
C39_ForwardsNeverRejected ==
    \A i \in 1..Len(rejected) : rejected[i].type # "forwarded-tcpip"

\* a forwarded-tcpip channel-open looked up once NewClient has made its
\* call of HandleChannelOpen goes to the queue
C39_AfterRegistration ==
    [][(LookupStep /\ dispatcher.type = "forwarded-tcpip" /\ hcoLog # <<>>) =>
           /\ dispatcher'.pc = "send"
           /\ dispatcher'.handler = hcoLog[1].ret]_vars

(***************************************************************************)
(* Config.SetDefaults on the algorithm lists, applied twice to one Config. *)
(* A Go slice is nil or a list; a nil slice has no elements.               *)
(***************************************************************************)
NilSlice == [isNil |-> TRUE, elems |-> <<>>]
Slice(s) == [isNil |-> FALSE, elems |-> s]

defaultCiphers ==
    Slice(<<"aes128-ctr", "aes192-ctr", "aes256-ctr", "aes128-gcm@openssh.com",
            "arcfour256", "arcfour128">>)

\* the names of gcmCipherID, aes128cbcID and tripledescbcID stand for their values
allSupportedCiphers ==
    {"aes128-ctr", "aes192-ctr", "aes256-ctr", "aes128-gcm@openssh.com",
     "arcfour256", "arcfour128", "arcfour", "aes128cbcID", "tripledescbcID"}

\* the names of the constants stand for their values
defaultKexAlgos ==
    Slice(<<"kexAlgoCurve25519SHA256", "kexAlgoECDH256", "kexAlgoECDH384",
            "kexAlgoECDH521", "kexAlgoDH14SHA1", "kexAlgoDH1SHA1">>)

supportedMACs == Slice(<<"hmac-sha2-256", "hmac-sha1", "hmac-sha1-96">>)

\* cipherModes[c] != nil: the ciphers with an implementation are the
\* supported ones
cipherModes(c) == c \in allSupportedCiphers

\* var ciphers []string; for ... { if cipherModes[c] != nil { ciphers =
\* append(ciphers, c) } }: nil unless a name was appended
supportedOf(list) ==
    LET ciphers == SelectSeq(list.elems, cipherModes)
    IN IF ciphers = <<>> THEN NilSlice ELSE Slice(ciphers)

\* lines 246-272 on the four fields
SetDefaultsConfig(c) ==
    [Ciphers |-> supportedOf(IF c.Ciphers.isNil THEN defaultCiphers ELSE c.Ciphers),
     KeyExchanges |-> IF c.KeyExchanges.isNil THEN defaultKexAlgos ELSE c.KeyExchanges,
     MACs |-> IF c.MACs.isNil THEN supportedMACs ELSE c.MACs,
     RekeyThreshold |-> SetDefaults(c.RekeyThreshold)]

\* the Configs SetDefaults is applied to
CipherLists ==
    {NilSlice, Slice(<<>>), Slice(<<"blowfish-cbc">>), Slice(<<"aes128-ctr">>),
     Slice(<<"blowfish-cbc", "arcfour">>), Slice(<<"aes256-ctr", "cast128-cbc", "aes128-ctr">>)}
KexLists == {NilSlice, Slice(<<>>), Slice(<<"kexAlgoDH14SHA1">>)}
MACLists == {NilSlice, Slice(<<>>), Slice(<<"hmac-sha1", "hmac-md5">>)}
TwiceThresholds == {Zero64, U64(0, 0, 0, 255), U64(0, 0, 0, 256), U64(1, 0, 0, 0)}
TwiceConfigs ==
    [Ciphers : CipherLists, KeyExchanges : KexLists, MACs : MACLists,
     RekeyThreshold : TwiceThresholds]

\* c.SetDefaults(), the first call
Config_SetDefaultsOnce ==
    /\ defaults.pc = "raw"
    /\ defaults' = [defaults EXCEPT !.pc = "once", !.once = SetDefaultsConfig(defaults.in),
                                    !.out = SetDefaultsConfig(defaults.in)]
    /\ DefaultsFrame

\* c.SetDefaults(), the second call on the same Config
Config_SetDefaultsAgain ==
    /\ defaults.pc = "once"
    /\ defaults' = [defaults EXCEPT !.pc = "twice", !.out = SetDefaultsConfig(defaults.out)]
    /\ DefaultsFrame

InitDefaultsTwice ==
    /\ TransportIdle /\ GlobalRequestsIdle /\ KexEntryIdle /\ NegotiationIdle /\ WindowIdle /\ ClientIdle
    /\ \E c \in TwiceConfigs : defaults = [pc |-> "raw", in |-> c, once |-> c, out |-> c]

NextDefaultsTwice ==
    \/ Config_SetDefaultsOnce
    \/ Config_SetDefaultsAgain

SpecDefaultsTwice == InitDefaultsTwice /\ [][NextDefaultsTwice]_vars

\* C40: the second SetDefaults leaves Ciphers, KeyExchanges, MACs and
\* RekeyThreshold as the first one set them.
C40_Idempotent == defaults.pc = "twice" => defaults.out = defaults.once

\* the second call changes nothing but a cipher list the first one left nil
C40_ExceptEmptiedCiphers ==
    defaults.pc = "twice" =>
        /\ defaults.out.KeyExchanges = defaults.once.KeyExchanges
        /\ defaults.out.MACs = defaults.once.MACs
        /\ defaults.out.RekeyThreshold = defaults.once.RekeyThreshold
        /\ IF defaults.once.Ciphers.isNil
           THEN defaults.out.Ciphers = defaultCiphers
           ELSE defaults.out.Ciphers = defaults.once.Ciphers

====
